---- MODULE Spec2Model ----
(***************************************************************************)
(* Model of the mindtouch2zim scraper: the asset pipeline of asset.py      *)
(* (AssetProcessor) and the run of processor.py (Processor.run, the CSS    *)
(* and HTML URL rewriters and the asset-to-download map).                  *)
(*                                                                         *)
(* SpecAsset drives AssetProcessor.process_asset over a sequence of asset  *)
(* paths; Spec drives Processor.run from the first archive item to the     *)
(* last asset. SpecTree and SpecSubTree cover the page tree and its        *)
(* filter, SpecHeaders the response headers, SpecMain the two mains and    *)
(* the exit codes, SpecRewrite the href and src attributes of one page,    *)
(* SpecResize the size of a transcoded image, SpecIllustration the         *)
(* candidates of the ZIM illustration, SpecProgress the progress counters  *)
(* of the run, SpecWorkers threads that call process_asset on one          *)
(* AssetProcessor.                                                         *)
(***************************************************************************)
EXTENDS Integers, Sequences, FiniteSets, TLC

(* ------------------------------ bounds -------------------------------- *)

\* largest configured --bad-assets-threshold explored (smallest is -1)
MaxThreshold == 1

\* largest number of invocations of get_asset_content the backoff decorator
\* makes for one candidate URL before its max_time is over
MaxTries == 2

\* largest number of URL references one stylesheet or page holds
MaxRefs == 2

\* largest number of selected pages
MaxPages == 2

\* largest number of LibraryPage objects of a library
MaxNodes == 4

\* largest width and height of a decoded image
MaxSide == 6

\* largest configured pixel budget
MaxPixels == 8

\* largest number of icons of the home page
MaxIcons == 2

\* largest number of items of one loop of Processor.run
MaxItems == 2

\* number of threads that call process_asset
MaxWorkers == 2

\* largest number of candidates one thread visits
MaxCandidates == 2

(* ------------------------------- values ------------------------------- *)

None == "None"

HttpUrl(scheme, host, path) == [scheme |-> scheme, host |-> host, path |-> path]

\* the absolute URLs the rewriters meet; the first two differ by their scheme
\* only, the third has an empty path
AssetUrls ==
    { HttpUrl("http", "cdn.example", "/a.png"),
      HttpUrl("https", "cdn.example", "/a.png"),
      HttpUrl("https", "logo.png", "") }

\* a reference that is no http(s) URL: its RewriteResult has no zim_path
DataUrl == HttpUrl("data", "", "")

\* ArticleUrlRewriter.normalize: the scheme is dropped, the ZIM path is the
\* host followed by the path, "/" when the URL has no path
normalize(url) == url.host \o (IF url.path = "" THEN "/" ELSE url.path)

\* RewriteResult.zim_path of a reference
zim_path(url) == IF url \in AssetUrls THEN normalize(url) ELSE None

ZimPaths == { normalize(u) : u \in AssetUrls }

UrlsOf(path) == { u \in AssetUrls : normalize(u) = path }

\* context.bad_assets_regex: unset, or a pattern on the URL's text
BadAssetsRegexes == { None, "^http:" }

\* context.bad_assets_regex and context.bad_assets_regex.findall(asset_url.value)
regex_findall(regex, url) ==
    CASE regex = None -> FALSE
      [] regex = "^http:" -> url.scheme = "http"
      [] OTHER -> FALSE

SUPPORTED_IMAGE_MIME_TYPES ==
    { "image/jpeg", "image/png", "image/gif", "image/bmp", "image/tiff",
      "image/webp", "image/x-portable-pixmap", "image/x-portable-graymap",
      "image/x-portable-bitmap", "image/x-portable-anymap",
      "image/vnd.microsoft.icon", "image/vnd.ms-dds", "application/postscript" }

\* str(WebpMedium.VERSION), the transcoder version stored with a cache entry
WebpVersion == "v1"

\* a Content-Type header value: a mime type and its parameters
ContentType(mime, params) == [mime |-> mime, params |-> params]

\* headers.get("Content-Type", None) when the header is absent
NoContentType == ContentType(None, "")

\* the mutant: the parameters of the Content-Type are not split off
MimeTypeUnsplit(content_type) ==
    IF content_type.params = "" THEN content_type.mime
    ELSE content_type.mime \o ";" \o content_type.params

\* header_data.content_type.split(";")[0].strip()
MimeTypeOf(content_type) == content_type.mime

Headers(etag, last_modified, content_length, content_type) ==
    [ETag |-> etag, LastModified |-> last_modified,
     ContentLength |-> content_length, ContentType |-> content_type]

\* the response headers a probe may return; "" is an absent header
HeaderChoices ==
    { Headers("e1", "lm1", "10", ContentType("image/png", "charset=binary")),
      Headers("", "", "", ContentType("image/png", "")),
      Headers("e1", "", "10", ContentType("text/css", "")),
      Headers("", "lm1", "", NoContentType) }

\* what the network, the image decoder and the S3 store do during one
\* invocation of get_asset_content; a step that is not reached, because an
\* earlier one failed or the response is no image, is left at "ok", and
\* time_left (the backoff's max_time is not over) at FALSE unless a request fails
Envs ==
    { e \in [ probe : {"ok", "RequestException"},
              headers : HeaderChoices,
              s3get : {"ok", "error"},
              download : {"ok", "RequestException"},
              transcode : {"ok", "error"},
              s3put : {"ok", "error"},
              time_left : BOOLEAN ] :
        LET image == MimeTypeOf(e.headers.ContentType) \in SUPPORTED_IMAGE_MIME_TYPES
            probed == e.probe = "ok"
            looked == probed /\ image /\ e.s3get = "ok"
            loaded == (IF image THEN looked ELSE probed) /\ e.download = "ok"
            coded == image /\ loaded /\ e.transcode = "ok"
        IN  /\ ~probed => e.headers = CHOOSE h \in HeaderChoices : TRUE
            /\ ~(probed /\ image) => e.s3get = "ok"
            /\ ~(IF image THEN looked ELSE probed) => e.download = "ok"
            /\ ~(image /\ loaded) => e.transcode = "ok"
            /\ ~coded => e.s3put = "ok"
            /\ e.time_left => (e.probe # "ok" \/ e.download # "ok") }

\* all the orders in which the elements of a set may be iterated
Orders(S) ==
    { f \in [1..Cardinality(S) -> S] : \A i, j \in 1..Cardinality(S) : f[i] = f[j] => i = j }

EmptyStore == [k \in {} |-> None]

S3Object(meta, data) == [meta |-> meta, data |-> data]

\* the cache contents a run may start with
InitialStores ==
    { EmptyStore,
      [k \in {"medium/cdn.example/a.png"} |->
          S3Object([ident |-> "e1", version |-> WebpVersion], "webp-cached")],
      [k \in {"medium/cdn.example/a.png"} |->
          S3Object([ident |-> "e1", version |-> "v0"], "webp-stale")] }

(* ------------------------------- state -------------------------------- *)

VARIABLES
    bad_assets_threshold,    \* context.bad_assets_threshold
    bad_assets_regex,        \* context.bad_assets_regex
    s3_url_with_credentials, \* context.s3_url_with_credentials is set
    s3_storage,              \* the objects of the S3 bucket: key -> (meta, data)
    bad_assets_count,        \* AssetProcessor.bad_assets_count
    archive,                 \* the items added to the Creator, in order
    processed,               \* the asset paths process_asset was called for
    status,                  \* "idle", "running", "returned" or "raised", or
                             \* the exception the constructor raised, or the
                             \* exception of a page that left run
    asset_path,              \* the path of the current process_asset call
    asset_urls,              \* asset_details.asset_urls of the call
    always_fetch_online,     \* asset_details.always_fetch_online of the call
    todo,                    \* the candidate URLs the for loop has yet to visit
    tries,                   \* invocations of get_asset_content made for Head(todo)
    tried,                   \* history: the candidates the call is done with
    last,                    \* history: the last invocation of get_asset_content
    nondenylisted_failures,  \* history: failed candidates not matching the regex
    phase,                   \* where Processor.run is: "start", "css", "tree",
                             \* "pages", "assets", "done" or "aborted"
    index,                   \* the stylesheet, page or asset the phase is at
    selected_pages,          \* the ids of content_filter.filter(pages_tree)
    items_to_download,       \* Processor.items_to_download, a dict in key order
    rewriter_items,          \* url_rewriter.items_to_download of the last pass
    refs,                    \* history: the references the last pass rewrote
    discovered,              \* history: the scheduled URLs in first-seen order
    resolved,                \* history: the asset paths a candidate yielded bytes for
    library,                 \* the LibraryPage objects: parent, children, id, title
    pages_tree,              \* a LibraryTree over them: root and pages
    content_filter,          \* the ContentFilter built from the arguments
    lib_op,                  \* "idle", "sub_tree" while its loop runs, "returned"
    tree,                    \* the LibraryTree sub_tree is building
    children_to_explore,     \* the list sub_tree takes the next child from
    visits,                  \* history: the children the loop of sub_tree took
    returned,                \* what the last call on the library or on the
                             \* response headers returned
    probe_headers,           \* the response headers _get_header_data_for gets
    zim_exists,              \* zim_path.exists()
    overwrite_existing_zim,  \* Processor.overwrite_existing_zim
    process,                 \* the scraper process: the main it runs, where it
                             \* is, the steps it made and its exit code (-1
                             \* while it runs)
    image,                   \* the image Image.open decoded: width and height
    maximum_image_pixels,    \* CONTEXT.maximum_image_pixels
    optimized,               \* the size of the image saved as WEBP and the
                             \* call that made it, "none" before it is saved
    illustration_url,        \* Processor.illustration_url, None when not given
    icons_urls,              \* home.icons_urls, a list
    icons_todo,              \* the candidates the loop of
                             \* _fetch_zim_illustration has yet to visit
    icons_tried,             \* history: the candidates visited and how each ended
    illustration,            \* where _fetch_zim_illustration is and what it
                             \* returned or raised
    stats_items_done,        \* Processor.stats_items_done
    stats_items_total,       \* Processor.stats_items_total
    stats_file,              \* the progress _report_progress wrote last
    progress,                \* where Processor.run is in its loops over files,
                             \* pages and assets, and the items its loop has left
    workers,                 \* the threads that call process_asset: where each
                             \* is, the counter value it loaded and the
                             \* candidates it has left
    lock,                    \* AssetProcessor.lock: the worker that holds it, 0
                             \* when it is free
    handled                  \* history: the counted failures in the order they
                             \* left the lock

assetVars ==
    << bad_assets_threshold, bad_assets_regex, s3_url_with_credentials, s3_storage,
       bad_assets_count, archive, processed, status, asset_path, asset_urls,
       always_fetch_online, todo, tries, tried, last, nondenylisted_failures >>

runVars ==
    << phase, index, selected_pages, items_to_download, rewriter_items, refs,
       discovered, resolved >>

libVars ==
    << library, pages_tree, content_filter, lib_op, tree, children_to_explore,
       visits, returned, probe_headers >>

mainVars == << zim_exists, overwrite_existing_zim, process >>

imageVars == << image, maximum_image_pixels, optimized >>

illustrationVars ==
    << illustration_url, icons_urls, icons_todo, icons_tried, illustration >>

progressVars == << stats_items_done, stats_items_total, stats_file, progress >>

workerVars == << workers, lock, handled >>

vars ==
    << assetVars, runVars, libVars, mainVars, imageVars, illustrationVars,
       progressVars, workerVars >>

\* no library tree has been fetched
NoLibrary ==
    /\ library = None
    /\ pages_tree = None
    /\ content_filter = None
    /\ lib_op = "idle"
    /\ tree = None
    /\ children_to_explore = << >>
    /\ visits = << >>
    /\ returned = None
    /\ probe_headers = None

\* no image is transcoded
NoImage ==
    /\ image = None
    /\ maximum_image_pixels = 0
    /\ optimized = [method |-> "none", width |-> 0, height |-> 0]

\* no illustration is fetched
NoIllustration ==
    /\ illustration_url = None
    /\ icons_urls = << >>
    /\ icons_todo = << >>
    /\ icons_tried = << >>
    /\ illustration = [state |-> "idle", url |-> None, converted_by |-> None]

\* no progress is reported
NoProgress ==
    /\ stats_items_done = 0
    /\ stats_items_total = 1
    /\ stats_file = [written |-> FALSE, done |-> 0, total |-> 0]
    /\ progress = [pc |-> "off", left |-> 0]

\* no thread calls process_asset
NoWorkers ==
    /\ workers = << >>
    /\ lock = 0
    /\ handled = << >>

\* no scraper process is looked at
NoMain ==
    /\ zim_exists = FALSE
    /\ overwrite_existing_zim = FALSE
    /\ process = [entry |-> None, pc |-> "off", done |-> << >>, raised |-> "none",
                  exit_code |-> -1]

(* --------------------------- AssetProcessor --------------------------- *)

\* what one invocation of get_asset_content ends with: the exception raised
\* ("none" when it returns), the bytes returned, the requests made in order,
\* the calls made to the S3 bucket, the bucket afterwards, the method that
\* was asked for the content ("none" when the probe raised) and the content
\* type the probe returned (NoContentType when there was none)
Result(exc, data, events, store) ==
    [exc |-> exc, data |-> data, events |-> events, store |-> store, s3 |-> << >>,
     via |-> "none", content_type |-> NoContentType]

\* the calls of s3_storage recorded with a result
WithS3(r, calls) == [r EXCEPT !.s3 = calls]

\* the mutant: Last-Modified is looked at before ETag
LastModifiedFirst(response_headers) ==
    [ ident |->
        IF response_headers.LastModified # "" THEN response_headers.LastModified
        ELSE IF response_headers.ETag # "" THEN response_headers.ETag
        ELSE IF response_headers.ContentLength # "" THEN response_headers.ContentLength
        ELSE "-1",
      content_type |-> response_headers.ContentType ]

\* HeaderData of _get_header_data_for: the first truthy header among ETag,
\* Last-Modified, Content-Length, else "-1"; the content type as received
_get_header_data_for(headers) ==
    [ ident |->
        IF headers.ETag # "" THEN headers.ETag
        ELSE IF headers.LastModified # "" THEN headers.LastModified
        ELSE IF headers.ContentLength # "" THEN headers.ContentLength
        ELSE "-1",
      content_type |-> headers.ContentType ]

\* the mutant: the lookup reports a miss whatever the bucket holds
MissingS3CacheLookup(s3_key, meta, env, store) ==
    IF env.s3get = "error"
    THEN [exc |-> "S3CacheError", data |-> None]
    ELSE [exc |-> "none", data |-> None]

\* s3_storage.download_matching_fileobj: the object under s3_key is written to
\* the file object when its meta match, NotFoundError is raised when there is
\* no such object, and any other exception when the request fails
download_matching_fileobj(s3_key, meta, env, store) ==
    IF env.s3get = "error" THEN "error"
    ELSE IF s3_key \in DOMAIN store /\ store[s3_key].meta = meta THEN "found"
    ELSE "NotFoundError"

\* s3_storage.upload_fileobj: the request succeeds or raises
upload_fileobj(env) == IF env.s3put = "ok" THEN "ok" ELSE "error"

\* the mutant: a failed lookup is reported as a miss
S3ErrorAsMiss(s3_key, meta, env, store) ==
    IF download_matching_fileobj(s3_key, meta, env, store) = "found"
    THEN [exc |-> "none", data |-> store[s3_key].data]
    ELSE [exc |-> "none", data |-> None]

\* the object under s3_key when its meta match, None on NotFoundError,
\* S3CacheError on any other exception
_download_from_s3_cache(s3_key, meta, env, store) ==
    CASE download_matching_fileobj(s3_key, meta, env, store) = "found" ->
           [exc |-> "none", data |-> store[s3_key].data]
      [] download_matching_fileobj(s3_key, meta, env, store) = "NotFoundError" ->
           [exc |-> "none", data |-> None]
      [] OTHER -> [exc |-> "S3CacheError", data |-> None]

\* the mutant: the transcoded bytes are not written to the bucket
UploadDropped(s3_key, meta, asset_content, store) == store

\* upload_fileobj: the object replaces what the key held
_upload_to_s3_cache(s3_key, meta, asset_content, store) ==
    [k \in DOMAIN store \cup {s3_key} |->
        IF k = s3_key THEN S3Object(meta, asset_content) ELSE store[k]]

_download_from_online(env, events, store) ==
    [ (IF env.download = "ok"
       THEN Result("none", "raw", Append(events, "download"), store)
       ELSE Result("RequestException", None, Append(events, "download"), store))
      EXCEPT !.via = "_download_from_online" ]

_get_image_content(path, header_data, env, events, store) ==
    LET meta == [ident |-> header_data.ident, version |-> WebpVersion]
        s3_key == "medium/" \o path
        s3_data == IF s3_url_with_credentials
                   THEN _download_from_s3_cache(s3_key, meta, env, store)
                   ELSE [exc |-> "none", data |-> None]
        ev1 == IF s3_url_with_credentials THEN Append(events, "s3_download") ELSE events
        ev2 == Append(ev1, "download")
        ev3 == Append(ev2, "transcode")
        ev4 == Append(ev3, "s3_upload")
        get == IF s3_url_with_credentials
               THEN << [op |-> "get", key |-> s3_key, meta |-> meta, data |-> None,
                        outcome |-> download_matching_fileobj(s3_key, meta, env, store)] >>
               ELSE << >>
        put == [op |-> "put", key |-> s3_key, meta |-> meta, data |-> "webp",
                outcome |-> upload_fileobj(env)]
        content ==
          IF s3_data.exc # "none" THEN Result(s3_data.exc, None, ev1, store)
          ELSE IF s3_data.data # None THEN Result("none", s3_data.data, ev1, store)
          ELSE IF env.download # "ok" THEN Result("RequestException", None, ev2, store)
          ELSE IF env.transcode # "ok" THEN Result("Exception", None, ev3, store)
          ELSE IF ~s3_url_with_credentials THEN Result("none", "webp", ev3, store)
          ELSE IF upload_fileobj(env) # "ok" THEN Result("S3CacheError", None, ev4, store)
          ELSE Result("none", "webp", ev4,
                      _upload_to_s3_cache(s3_key, meta, "webp", store))
    IN  WithS3(
          [content EXCEPT !.via = "_get_image_content"],
          IF s3_data.exc # "none" \/ s3_data.data # None \/ env.download # "ok"
             \/ env.transcode # "ok" \/ ~s3_url_with_credentials
          THEN get ELSE Append(get, put))

\* the mutant: the RequestException of a denylisted URL is raised as it is
raised_again(exc, regex, url) == exc

\* asset.py 286-295: the RequestException of a URL the denylist matches is
\* replaced by KnownBadAssetFailedError, any other is raised again
known_bad_asset(exc, regex, url) ==
    IF exc = "RequestException" /\ regex_findall(regex, url)
    THEN "KnownBadAssetFailedError"
    ELSE exc

\* the mutant: the decorator also catches S3CacheError
retry_cache_error(exc, time_left, n) ==
    \/ exc = "S3CacheError" /\ n + 1 < MaxTries
    \/ exc = "RequestException" /\ time_left /\ n + 1 < MaxTries

\* the mutant: the decorator has no max_time
retry_forever(exc, time_left, n) == exc = "RequestException"

\* asset.py 257-262: backoff.on_exception calls the function again when it
\* raised RequestException and max_time is not over; n invocations were made
\* before the one that raised
on_exception(exc, time_left, n) ==
    exc = "RequestException" /\ time_left /\ n + 1 < MaxTries

\* one invocation of the body of get_asset_content (the backoff decorator is
\* the Backoff action)
get_asset_content(path, url, fetch_online, env, store) ==
    LET header_data == _get_header_data_for(env.headers)
        events == IF fetch_online THEN << >> ELSE << "probe" >>
        r == IF ~fetch_online /\ env.probe # "ok"
             THEN Result("RequestException", None, events, store)
             ELSE IF /\ ~fetch_online
                     /\ header_data.content_type # NoContentType
                     /\ MimeTypeOf(header_data.content_type) \in SUPPORTED_IMAGE_MIME_TYPES
             THEN _get_image_content(path, header_data, env, events, store)
             ELSE _download_from_online(env, events, store)
    IN  [r EXCEPT !.exc = known_bad_asset(r.exc, bad_assets_regex, url),
                  !.content_type = IF ~fetch_online /\ env.probe = "ok"
                                   THEN header_data.content_type
                                   ELSE NoContentType]

\* the mutant: the threshold is compared even when it is negative
ThresholdReachedAlways(count, threshold) == count > threshold

\* the mutant: the failure that equals the threshold is already fatal
ThresholdReachedEarly(count, threshold) == threshold >= 0 /\ count >= threshold

\* asset.py 112-115
ThresholdReached(count, threshold) == threshold >= 0 /\ count > threshold

\* the mutant: the loop goes on with the next candidate after an add
NoBreak(candidates) == Tail(candidates)

\* asset.py 98: break, no candidate is left to visit
Break(candidates) == << >>

\* the entry the bucket holds for the lookup an invocation would make
CacheHolds(path, env, store) ==
    /\ "medium/" \o path \in DOMAIN store
    /\ store["medium/" \o path].meta =
          [ident |-> _get_header_data_for(env.headers).ident, version |-> WebpVersion]

Invocation(r, held) ==
    [exc |-> r.exc, data |-> r.data, events |-> r.events, cache_held |-> held,
     s3 |-> r.s3, via |-> r.via, content_type |-> r.content_type]

NoInvocation ==
    [exc |-> "none", data |-> None, events |-> << >>, cache_held |-> FALSE,
     s3 |-> << >>, via |-> "none", content_type |-> NoContentType]

\* the mutant: the credentials are checked whether or not a cache is configured
SetupS3AlwaysChecks(configured, credentials_ok) ==
    IF credentials_ok THEN "none" ELSE "S3InvalidCredentialsError"

\* asset.py 297-316: nothing is checked when no cache is configured, otherwise
\* check_credentials must succeed
_setup_s3(configured, credentials_ok) ==
    IF ~configured THEN "none"
    ELSE IF credentials_ok THEN "none"
    ELSE "S3InvalidCredentialsError"

\* AssetProcessor(): the constructor returns the object, or raises what
\* _setup_s3 raised and there is no object to process an asset with
InitAsset ==
    /\ bad_assets_threshold \in -1..MaxThreshold
    /\ bad_assets_regex \in BadAssetsRegexes
    /\ s3_url_with_credentials \in BOOLEAN
    /\ s3_storage \in IF s3_url_with_credentials THEN InitialStores ELSE {EmptyStore}
    /\ bad_assets_count = 0
    /\ archive = << >>
    /\ processed = {}
    /\ \E credentials_ok \in BOOLEAN :
         status = IF _setup_s3(s3_url_with_credentials, credentials_ok) = "none"
                  THEN "idle"
                  ELSE _setup_s3(s3_url_with_credentials, credentials_ok)
    /\ asset_path = None
    /\ asset_urls = {}
    /\ always_fetch_online = FALSE
    /\ todo = << >>
    /\ tries = 0
    /\ tried = << >>
    /\ last = NoInvocation
    /\ nondenylisted_failures = 0
    /\ phase = "assets"
    /\ index = 0
    /\ selected_pages = << >>
    /\ items_to_download = << >>
    /\ rewriter_items = << >>
    /\ refs = << >>
    /\ discovered = << >>
    /\ resolved = {}
    /\ NoLibrary
    /\ NoMain
    /\ NoImage
    /\ NoIllustration
    /\ NoProgress
    /\ NoWorkers

\* process_asset is entered for a path of the asset map: the for loop will
\* visit asset_details.asset_urls, a set, in the order its iterator yields
process_asset(path, urls, fetch_online, order) ==
    /\ status \in {"idle", "returned"}
    /\ path \notin processed
    /\ processed' = processed \cup {path}
    /\ status' = "running"
    /\ asset_path' = path
    /\ asset_urls' = urls
    /\ always_fetch_online' = fetch_online
    /\ todo' = order
    /\ tries' = 0
    /\ tried' = << >>
    /\ last' = NoInvocation
    /\ UNCHANGED << bad_assets_threshold, bad_assets_regex, s3_url_with_credentials,
                    s3_storage, bad_assets_count, archive, nondenylisted_failures >>
    /\ UNCHANGED << runVars, libVars, mainVars, imageVars, illustrationVars, progressVars, workerVars >>

\* get_asset_content raised RequestException and the decorator's max_time is
\* not over: the same candidate is tried again
Backoff(env) ==
    /\ status = "running"
    /\ LET url == Head(todo)
           r == get_asset_content(asset_path, url, always_fetch_online, env, s3_storage)
       IN  /\ on_exception(r.exc, env.time_left, tries)
           /\ tries' = tries + 1
           /\ s3_storage' = r.store
           /\ last' = Invocation(r, CacheHolds(asset_path, env, s3_storage))
    /\ UNCHANGED << bad_assets_threshold, bad_assets_regex, s3_url_with_credentials,
                    bad_assets_count, archive, processed, status, asset_path,
                    asset_urls, always_fetch_online, todo, tried,
                    nondenylisted_failures >>
    /\ UNCHANGED << runVars, libVars, mainVars, imageVars, illustrationVars, progressVars, workerVars >>

\* one turn of the for loop of process_asset that ends with the candidate:
\* its content is added and the loop left, or the exception is handled
Candidate(env) ==
    /\ status = "running"
    /\ LET url == Head(todo)
           r == get_asset_content(asset_path, url, always_fetch_online, env, s3_storage)
           count == bad_assets_count + 1
           fatal == ThresholdReached(count, bad_assets_threshold)
           rest == IF r.exc = "none" THEN Break(todo) ELSE Tail(todo)
       IN  /\ ~on_exception(r.exc, env.time_left, tries)
           /\ s3_storage' = r.store
           /\ last' = Invocation(r, CacheHolds(asset_path, env, s3_storage))
           /\ tried' = Append(tried, [url |-> url, exc |-> r.exc,
                                      attempts |-> tries + 1,
                                      max_time_over |-> r.exc = "RequestException"
                                                        /\ ~env.time_left])
           /\ tries' = 0
           /\ archive' = IF r.exc = "none"
                         THEN Append(archive, [path |-> "content/" \o asset_path,
                                               content |-> r.data])
                         ELSE archive
           /\ bad_assets_count' =
                 IF r.exc \in {"none", "KnownBadAssetFailedError"}
                 THEN bad_assets_count ELSE count
           /\ nondenylisted_failures' =
                 IF r.exc # "none" /\ ~regex_findall(bad_assets_regex, url)
                 THEN nondenylisted_failures + 1 ELSE nondenylisted_failures
           /\ IF r.exc \notin {"none", "KnownBadAssetFailedError"} /\ fatal
              THEN status' = "raised" /\ todo' = todo
              ELSE /\ todo' = rest
                   /\ status' = IF rest = << >> THEN "returned" ELSE "running"
    /\ UNCHANGED << bad_assets_threshold, bad_assets_regex, s3_url_with_credentials,
                    processed, asset_path, asset_urls, always_fetch_online >>
    /\ UNCHANGED << runVars, libVars, mainVars, imageVars, illustrationVars, progressVars, workerVars >>

NextAsset ==
    \/ \E path \in ZimPaths :
         \E urls \in SUBSET UrlsOf(path) \ {{}} :
           \E fetch_online \in BOOLEAN :
             \E order \in Orders(urls) :
               process_asset(path, urls, fetch_online, order)
    \/ \E env \in Envs : Backoff(env)
    \/ \E env \in Envs : Candidate(env)

SpecAsset == InitAsset /\ [][NextAsset]_vars

(* ------------------- URL rewriters and Processor.run ------------------- *)

\* mindtouch_client.library_url
LibraryHost == "lib.example"

\* HttpUrl(f"{library_url}/{page.path}"); the path of a page is its id
PageUrl(page) == HttpUrl("https", LibraryHost, "/" \o page)

\* a path without its leading slash
without_slash(path) ==
    CASE path = "/a.png" -> "a.png"
      [] path = "/0" -> "0"
      [] path = "/1" -> "1"
      [] path = "/2" -> "2"
      [] path = "/3" -> "3"
      [] OTHER -> path

\* a text is the sequence of its parts: the text of a ZIM path, host first
path_text(url) ==
    << url.host, "/" >>
       \o (IF url.path = "" THEN << >> ELSE << without_slash(url.path) >>)

\* the text of an absolute URL
absolute_text(url) ==
    IF url.scheme \notin {"http", "https"} THEN << url.scheme \o ":" >>
    ELSE << url.scheme \o "://" >> \o
         (IF url.path = "" THEN << url.host >> ELSE path_text(url))

\* str.startswith
startswith(text, prefix) ==
    /\ Len(prefix) <= Len(text)
    /\ SubSeq(text, 1, Len(prefix)) = prefix

\* ArticleUrlRewriter.normalize(HttpUrl(f"{library_url}/")).value
library_path == << LibraryHost, "/" >>

\* processor.py 392-397
existing_html_pages(pages) == { normalize(PageUrl(pages[i])) : i \in DOMAIN pages }

\* ArticleUrlRewriter.__call__ for an article at the root of the archive: a
\* URL that is not http(s) is kept as it is and has no zim_path; an http(s)
\* URL gets its ZIM path when every URL is rewritten or the path exists in
\* the archive, and is made absolute otherwise
RewriteResult(url, rewrite_all_url, existing_zim_paths) ==
    IF url.scheme \notin {"http", "https"}
    THEN [absolute_url |-> url, rewriten_url |-> absolute_text(url), zim_path |-> None]
    ELSE IF rewrite_all_url \/ normalize(url) \in existing_zim_paths
    THEN [absolute_url |-> url, rewriten_url |-> path_text(url),
          zim_path |-> normalize(url)]
    ELSE [absolute_url |-> url, rewriten_url |-> absolute_text(url), zim_path |-> None]

\* a dict[ZimPath, set[HttpUrl]] is the sequence of its items in key order
Keys(items) == { items[i].path : i \in DOMAIN items }

HasKey(items, path) == path \in Keys(items)

Get(items, path) == items[CHOOSE i \in DOMAIN items : items[i].path = path].urls

\* items[path] = urls for a new key
Insert(items, path, urls) == Append(items, [path |-> path, urls |-> urls])

\* items[path].add(url), items[path].update(urls)
Update(items, path, urls) ==
    [i \in DOMAIN items |->
        IF items[i].path = path
        THEN [path |-> path, urls |-> items[i].urls \cup urls]
        ELSE items[i]]

\* the mutant: the set of an existing key is replaced by the new URLs
Overwrite(items, path, urls) ==
    [i \in DOMAIN items |->
        IF items[i].path = path THEN [path |-> path, urls |-> urls] ELSE items[i]]

\* the mutant: a later URL of a known path replaces the set
add_item_replacing(items, url) ==
    IF zim_path(url) = None THEN items
    ELSE IF HasKey(items, zim_path(url))
    THEN Overwrite(items, zim_path(url), {url})
    ELSE Insert(items, zim_path(url), {url})

\* HtmlUrlsRewriter.add_item_to_download
add_item_to_download(items, url) ==
    IF zim_path(url) = None THEN items
    ELSE IF HasKey(items, zim_path(url))
    THEN Update(items, zim_path(url), {url})
    ELSE Insert(items, zim_path(url), {url})

\* rewrite_href_src_attributes: an img reference is scheduled, an anchor is not
rewrite_href_src_attributes(items, ref) ==
    IF ref.tag = "img" THEN add_item_to_download(items, ref.url) ELSE items

\* the mutant: the argument is passed on to ArticleUrlRewriter.__call__
CssUrlsRewriter_call_passing(items, ref, rewrite_all_url) ==
    LET result == RewriteResult(ref.url, rewrite_all_url, {})
    IN  IF result.zim_path = None THEN items
        ELSE IF HasKey(items, result.zim_path)
        THEN Update(items, result.zim_path, {result.absolute_url})
        ELSE Insert(items, result.zim_path, {result.absolute_url})

\* CssUrlsRewriter.__call__: ArticleUrlRewriter.__call__ is called with
\* rewrite_all_url=True whatever the argument is, and every reference with a
\* zim_path is scheduled
CssUrlsRewriter_call(items, ref, rewrite_all_url) ==
    LET result == RewriteResult(ref.url, TRUE, {})
    IN  IF result.zim_path = None THEN items
        ELSE IF HasKey(items, result.zim_path)
        THEN Update(items, result.zim_path, {result.absolute_url})
        ELSE Insert(items, result.zim_path, {result.absolute_url})

\* an element without href or src: the attribute rule returns at once
NoAttribute == HttpUrl("", "", "")

\* the mutant: no tag is refused
no_tag_refused(tag) == "none"

\* refuse_unsupported_tags
refuse_unsupported_tags(tag) ==
    IF tag = "picture" THEN "UnsupportedTagError" ELSE "none"

\* rewrite_href_src_attributes, 582-583 and 605-609: an href or src of a tag
\* that is neither a nor img gets no new value
empty_new_value(ref) ==
    IF ref.url = NoAttribute THEN "none"
    ELSE IF ref.tag \in {"a", "img"} THEN "none"
    ELSE "ValueError"

\* HtmlRewriter.rewrite: the first exception a rule raises leaves the rewriter
RECURSIVE rewrite_raises(_)
rewrite_raises(references) ==
    IF references = << >> THEN "none"
    ELSE IF refuse_unsupported_tags(Head(references).tag) # "none"
    THEN refuse_unsupported_tags(Head(references).tag)
    ELSE IF empty_new_value(Head(references)) # "none"
    THEN empty_new_value(Head(references))
    ELSE rewrite_raises(Tail(references))

\* a response to /pages/{id}/contents: the request raised, or the types of
\* the first two elements of body and the @target of the second
PageContents(exc, first, second, target) ==
    [exc |-> exc, first |-> first, second |-> second, target |-> target]

WellFormedContents == PageContents("none", "str", "dict", "toc")

MalformedContents ==
    { PageContents("RequestException", "str", "dict", "toc"),
      PageContents("none", "dict", "dict", "toc"),
      PageContents("none", "str", "str", "toc"),
      PageContents("none", "str", "dict", "absent"),
      PageContents("none", "str", "dict", "nav") }

\* get_page_content
get_page_content(response) ==
    IF response.exc # "none" THEN response.exc
    ELSE IF response.first # "str" THEN "LibreTextsParsingError"
    ELSE IF response.second # "dict" THEN "LibreTextsParsingError"
    ELSE IF response.target # "toc" THEN "LibreTextsParsingError"
    ELSE "none"

\* HtmlRewriter.rewrite: the rule is applied to the references in document order
RECURSIVE rewrite_html(_, _)
rewrite_html(references, items) ==
    IF references = << >> THEN items
    ELSE rewrite_html(Tail(references),
                      rewrite_href_src_attributes(items, Head(references)))

\* CssRewriter.rewrite: the rewriter is called on the references in order
RECURSIVE rewrite_css(_, _, _)
rewrite_css(references, items, rewrite_all_url) ==
    IF references = << >> THEN items
    ELSE rewrite_css(Tail(references),
                     CssUrlsRewriter_call(items, Head(references), rewrite_all_url),
                     rewrite_all_url)

\* the mutant: self.items_to_download.update(url_rewriter.items_to_download)
RECURSIVE merge_items_update(_, _)
merge_items_update(own, found) ==
    IF found = << >> THEN own
    ELSE merge_items_update(
             IF HasKey(own, Head(found).path)
             THEN Overwrite(own, Head(found).path, Head(found).urls)
             ELSE Insert(own, Head(found).path, Head(found).urls),
             Tail(found))

\* processor.py 464-468 and 491-495: the pass's map is merged into the run's
RECURSIVE merge_items(_, _)
merge_items(own, found) ==
    IF found = << >> THEN own
    ELSE merge_items(
             IF HasKey(own, Head(found).path)
             THEN Update(own, Head(found).path, Head(found).urls)
             ELSE Insert(own, Head(found).path, Head(found).urls),
             Tail(found))

Item(path) == [path |-> path, content |-> "bytes"]

\* the files of zimui_dist and of the mathjax folder, as rglob yields them
StaticFiles == << "index.html", "assets/index.js", "mathjax/tex-svg.js" >>

CssFiles == << "screen.css", "print.css", "inline.css" >>

\* processor.py 498
page_content_path(page_id) == "content/page_content_" \o page_id \o ".json"

\* processor.py 419
asset_item_path(path) == "content/" \o path

\* the mutant: the loop goes on with the next candidate after an add
run_no_break(candidates) == Tail(candidates)

\* the mutant: the asset loop starts after the first page
assets_after_first_page(i, pages) == "assets"

\* processor.py 398-407: the asset loop starts when the loop over the
\* selected pages is exhausted
after_page(i, pages) == IF i = Len(pages) THEN "assets" ELSE "pages"

\* processor.py 422: break, no candidate is left to visit
run_break(candidates) == << >>

\* the references a stylesheet or a page may hold, in document order
Refs(S) == UNION { [1..n -> S] : n \in 0..MaxRefs }

CssRefs == { [tag |-> "url", url |-> u] : u \in AssetUrls \cup {DataUrl} }

HtmlRefs ==
    { [tag |-> "img", url |-> u] : u \in AssetUrls \cup {DataUrl} }
    \cup { [tag |-> "a", url |-> HttpUrl("https", "cdn.example", "/a.png")] }

\* the elements the rules do not support: a picture, and an iframe with a src
UnsupportedRefs ==
    { [tag |-> "picture", url |-> NoAttribute],
      [tag |-> "iframe", url |-> HttpUrl("https", "cdn.example", "/a.png")] }

\* history: the URLs a pass schedules, in the order it meets them
RECURSIVE Scheduled(_)
Scheduled(references) ==
    IF references = << >> THEN << >>
    ELSE IF Head(references).tag # "a" /\ Head(references).url \in AssetUrls
    THEN << Head(references).url >> \o Scheduled(Tail(references))
    ELSE Scheduled(Tail(references))

RECURSIVE AppendNew(_, _)
AppendNew(seq, more) ==
    IF more = << >> THEN seq
    ELSE AppendNew(IF \E i \in DOMAIN seq : seq[i] = Head(more)
                   THEN seq ELSE Append(seq, Head(more)),
                   Tail(more))

Init ==
    /\ bad_assets_threshold = -1
    /\ bad_assets_regex = None
    /\ s3_url_with_credentials = FALSE
    /\ s3_storage = EmptyStore
    /\ bad_assets_count = 0
    /\ archive = << >>
    /\ processed = {}
    /\ status = "idle"
    /\ asset_path = None
    /\ asset_urls = {}
    /\ always_fetch_online = FALSE
    /\ todo = << >>
    /\ tries = 0
    /\ tried = << >>
    /\ last = NoInvocation
    /\ nondenylisted_failures = 0
    /\ phase = "start"
    /\ index = 0
    /\ selected_pages = << >>
    /\ items_to_download = << >>
    /\ rewriter_items = << >>
    /\ refs = << >>
    /\ discovered = << >>
    /\ resolved = {}
    /\ NoLibrary
    /\ NoMain
    /\ NoImage
    /\ NoIllustration
    /\ NoProgress
    /\ NoWorkers

loopVars == << processed, status, asset_path, asset_urls, todo, tried >>

unusedVars ==
    << bad_assets_threshold, bad_assets_regex, s3_url_with_credentials, s3_storage,
       bad_assets_count, always_fetch_online, tries, last, nondenylisted_failures,
       libVars, mainVars, imageVars, illustrationVars, progressVars, workerVars >>

\* processor.py 277-350: the favicon, the configuration, the UI and MathJax
\* files and the logo are added, then the run's asset map is created empty
run_start(logo_fetched) ==
    /\ phase = "start"
    /\ IF logo_fetched
       THEN /\ archive' = << Item("favicon.ico"), Item("content/config.json") >>
                             \o [i \in DOMAIN StaticFiles |-> Item(StaticFiles[i])]
                             \o << Item("content/logo.png") >>
            /\ phase' = "css"
            /\ index' = 1
       ELSE /\ archive' = << Item("favicon.ico"), Item("content/config.json") >>
                             \o [i \in DOMAIN StaticFiles |-> Item(StaticFiles[i])]
            /\ phase' = "aborted"
            /\ index' = index
    /\ items_to_download' = << >>
    /\ UNCHANGED << selected_pages, rewriter_items, refs, discovered, resolved >>
    /\ UNCHANGED << loopVars, unusedVars >>

\* Processor._process_css for the index-th stylesheet, rewrite_all_url being
\* what CssRewriter hands to the URL rewriter; when the stylesheet cannot be
\* fetched stream_file raises and run is left
_process_css(references, fetched, rewrite_all_url) ==
    /\ phase = "css"
    /\ IF fetched
       THEN /\ rewriter_items' = rewrite_css(references, << >>, rewrite_all_url)
            /\ refs' = references
            /\ items_to_download' = merge_items(items_to_download, rewriter_items')
            /\ discovered' = AppendNew(discovered, Scheduled(references))
            /\ archive' = Append(archive, Item("content/" \o CssFiles[index]))
            /\ phase' = IF index = Len(CssFiles) THEN "tree" ELSE "css"
            /\ index' = IF index = Len(CssFiles) THEN 0 ELSE index + 1
       ELSE /\ phase' = "aborted"
            /\ UNCHANGED << rewriter_items, refs, items_to_download, discovered,
                            archive, index >>
    /\ UNCHANGED << selected_pages, resolved >>
    /\ UNCHANGED << loopVars, unusedVars >>

\* processor.py 368-397: the selected pages are known, shared.json is added
fetch_pages(n) ==
    /\ phase = "tree"
    /\ selected_pages' = [i \in 1..n |-> ToString(i)]
    /\ archive' = Append(archive, Item("content/shared.json"))
    /\ phase' = "pages"
    /\ index' = 1
    /\ UNCHANGED << items_to_download, rewriter_items, refs, discovered, resolved >>
    /\ UNCHANGED << loopVars, unusedVars >>

\* what _process_page raises: what get_page_content raised, or else what the
\* rewriter raised
page_raises(references, response) ==
    IF get_page_content(response) # "none"
    THEN get_page_content(response)
    ELSE rewrite_raises(references)

\* Processor._process_page for the index-th selected page; when the page
\* cannot be fetched or rewritten the exception leaves run
_process_page(references, response) ==
    /\ phase = "pages"
    /\ IF page_raises(references, response) = "none"
       THEN /\ rewriter_items' = rewrite_html(references, << >>)
            /\ refs' = references
            /\ items_to_download' = merge_items(items_to_download, rewriter_items')
            /\ discovered' = AppendNew(discovered, Scheduled(references))
            /\ archive' = Append(archive, Item(page_content_path(selected_pages[index])))
            /\ phase' = after_page(index, selected_pages)
            /\ index' = IF index = Len(selected_pages) THEN 0 ELSE index + 1
            /\ status' = status
       ELSE /\ phase' = "aborted"
            /\ status' = page_raises(references, response)
            /\ UNCHANGED << rewriter_items, refs, items_to_download, discovered,
                            archive, index >>
    /\ UNCHANGED << selected_pages, resolved >>
    /\ UNCHANGED << processed, asset_path, asset_urls, todo, tried, unusedVars >>

\* processor.py 407-410: the next item of the asset map is taken, or the map
\* is exhausted; the inner loop will visit asset_urls, a set, in the order
\* its iterator yields
run_next_asset(order) ==
    /\ phase = "assets"
    /\ status # "running"
    /\ IF index < Len(items_to_download)
       THEN /\ order \in Orders(items_to_download[index + 1].urls)
            /\ index' = index + 1
            /\ asset_path' = items_to_download[index + 1].path
            /\ asset_urls' = items_to_download[index + 1].urls
            /\ processed' = processed \cup {items_to_download[index + 1].path}
            /\ todo' = order
            /\ tried' = << >>
            /\ status' = "running"
            /\ phase' = phase
       ELSE /\ order = << >>
            /\ phase' = "done"
            /\ UNCHANGED << index, loopVars >>
    /\ rewriter_items' = << >>
    /\ refs' = << >>
    /\ UNCHANGED << archive, selected_pages, items_to_download, discovered, resolved >>
    /\ UNCHANGED unusedVars

\* processor.py 410-427: one candidate URL is streamed; its content is added
\* and the loop left, an HTTPError is ignored, any other exception leaves run
run_asset_candidate(outcome) ==
    /\ phase = "assets"
    /\ status = "running"
    /\ LET url == Head(todo)
           rest == IF outcome = "none" THEN run_break(todo) ELSE Tail(todo)
       IN  /\ tried' = Append(tried, [url |-> url, exc |-> outcome])
           /\ archive' = IF outcome = "none"
                         THEN Append(archive, Item(asset_item_path(asset_path)))
                         ELSE archive
           /\ resolved' = IF outcome = "none" THEN resolved \cup {asset_path} ELSE resolved
           /\ IF outcome = "Exception"
              THEN /\ phase' = "aborted"
                   /\ status' = "raised"
                   /\ todo' = todo
              ELSE /\ phase' = phase
                   /\ todo' = rest
                   /\ status' = IF rest = << >> THEN "returned" ELSE "running"
    /\ UNCHANGED << processed, asset_path, asset_urls >>
    /\ UNCHANGED << index, selected_pages, items_to_download, rewriter_items, refs,
                    discovered >>
    /\ UNCHANGED unusedVars

AllOrders == UNION { Orders(S) : S \in SUBSET AssetUrls }

Next ==
    \/ \E logo_fetched \in BOOLEAN : run_start(logo_fetched)
    \/ \E references \in Refs(CssRefs) :
         \E rewrite_all_url \in BOOLEAN : _process_css(references, TRUE, rewrite_all_url)
    \/ _process_css(<< >>, FALSE, TRUE)
    \/ \E n \in 1..MaxPages : fetch_pages(n)
    \/ \E references \in Refs(HtmlRefs \cup UnsupportedRefs) :
         _process_page(references, WellFormedContents)
    \/ \E response \in MalformedContents : _process_page(<< >>, response)
    \/ \E order \in AllOrders : run_next_asset(order)
    \/ \E outcome \in {"none", "HTTPError", "Exception"} : run_asset_candidate(outcome)

Spec == Init /\ [][Next]_vars

(* -------------------- LibraryTree and ContentFilter -------------------- *)

\* a dict[LibraryPageId, LibraryPage] is the sequence of its items in key
\* order; a LibraryPage is the number of the object, 0 is None
PageIds(pages) == { pages[i].id : i \in DOMAIN pages }

PageValues(pages) == [i \in DOMAIN pages |-> pages[i].page]

PageAt(pages, id) == pages[CHOOSE i \in DOMAIN pages : pages[i].id = id].page

\* pages[id] = page: a new key comes last, a known key keeps its place
SetPage(pages, id, page) ==
    IF id \in PageIds(pages)
    THEN [i \in DOMAIN pages |->
            IF pages[i].id = id THEN [id |-> id, page |-> page] ELSE pages[i]]
    ELSE Append(pages, [id |-> id, page |-> page])

Titles == {"Alpha", "Beta", "Alphabet"}

\* re.compile(pattern, re.IGNORECASE).search(title) is not None
re_search(pattern, title) ==
    CASE pattern = "alpha" -> title \in {"Alpha", "Alphabet"}
      [] pattern = "bet" -> title \in {"Beta", "Alphabet"}
      [] OTHER -> FALSE

\* page_id_include.split(",")
split(csv) ==
    CASE csv = "2" -> << "2" >>
      [] csv = "2, 3" -> << "2", " 3" >>
      [] OTHER -> << csv >>

\* page_id.strip()
strip(page_id) == IF page_id = " 3" THEN "3" ELSE page_id

\* the nodes of a /pages/home/tree response are numbered in document order and
\* up[i] is the node whose subpages hold node i, 0 for tree_data["page"]
RECURSIVE Chain(_, _)
Chain(up, i) == IF i = 0 THEN {} ELSE {i} \cup Chain(up, up[i])

TreeShapes(n) ==
    { up \in [1..n -> 0..(n - 1)] :
        /\ up[1] = 0
        /\ \A i \in 2..n : up[i] \in 1..(i - 1)
        /\ \A i \in 2..n : up[i] \in Chain(up, i - 1) }

\* every node of the response has an id of its own
DistinctIds(n) == { [i \in 1..n |-> ToString(i)] }

\* a response may repeat ids: a node has an id of its own or that of an
\* earlier node
RepeatedIds(n) ==
    { [i \in 1..n |-> ToString(g[i])] :
        g \in { h \in [1..n -> 1..n] : \A i \in 1..n : h[i] <= i /\ h[h[i]] = h[i] } }

TreeData(up, ids, titles) == [up |-> up, ids |-> ids, titles |-> titles]

\* the responses with distinct ids
TreeDatas ==
    UNION { { TreeData(up, ids, titles) :
                up \in TreeShapes(n), ids \in DistinctIds(n), titles \in [1..n -> Titles] } :
            n \in 1..MaxNodes }

\* the responses whose ids may repeat
MalformedTreeDatas ==
    UNION { { TreeData(up, ids, [i \in 1..n |-> "Alpha"]) :
                up \in TreeShapes(n), ids \in RepeatedIds(n) } :
            n \in 1..MaxNodes }

RECURSIVE AddPages(_, _, _)
AddPages(pages, ids, i) ==
    IF i > Len(ids) THEN pages ELSE AddPages(SetPage(pages, ids[i], i), ids, i + 1)

\* the LibraryPage objects get_page_tree creates, one per node and in document
\* order, each appended to the children of its parent, and the LibraryTree:
\* tree_obj.pages[page.id] = page for each of them
get_page_tree(tree_data) ==
    LET n == Len(tree_data.up)
    IN  [ library |->
            [ parent |-> tree_data.up,
              children |-> [i \in 1..n |->
                              SelectSeq([j \in 1..n |-> j],
                                        LAMBDA j : tree_data.up[j] = i)],
              id |-> tree_data.ids,
              title |-> tree_data.titles ],
          tree |-> [root |-> 1, pages |-> AddPages(<< >>, tree_data.ids, 1)] ]

\* a LibraryPage built with one more entry in its children list
WithChild(lib, page, child) == [lib EXCEPT !.children[page] = Append(@, child)]

\* the mutant: the walk forgets the parents
SelfOnly(lib, page) == << page >>

\* the mutant: the walk stops below the root
StopsBelowRoot(lib, page) ==
    IF lib.parent[page] = 0 THEN << page >> ELSE << page, page >>

RECURSIVE walk_parents(_, _, _)
walk_parents(lib, current, result) ==
    IF lib.parent[current] = 0
    THEN result
    ELSE walk_parents(lib, lib.parent[current], Append(result, lib.parent[current]))

\* LibraryPage.self_and_parents
self_and_parents(lib, page) == walk_parents(lib, page, << page >>)

\* the mutant: the loop has no safe-guard
sub_tree_step_unguarded(lib, st) ==
    [ pages |-> SetPage(st.pages, lib.id[Head(st.queue)], Head(st.queue)),
      queue |-> Tail(st.queue) \o lib.children[Head(st.queue)] ]

\* one turn of the while loop of sub_tree: children_to_explore[0] is removed,
\* and added with its children unless its id is in tree.pages already
sub_tree_step(lib, st) ==
    LET child == Head(st.queue)
        rest == Tail(st.queue)
    IN  IF lib.id[child] \in PageIds(st.pages)
        THEN [pages |-> st.pages, queue |-> rest]
        ELSE [ pages |-> SetPage(st.pages, lib.id[child], child),
               queue |-> rest \o lib.children[child] ]

\* sub_tree up to its loop
sub_tree_begin(lib, t, subroot_id) ==
    LET new_root == PageAt(t.pages, subroot_id)
    IN  [ root |-> new_root,
          pages |-> SetPage(<< >>, lib.id[new_root], new_root),
          queue |-> lib.children[new_root] ]

RECURSIVE sub_tree_loop(_, _)
sub_tree_loop(lib, st) ==
    IF st.queue = << >> THEN st ELSE sub_tree_loop(lib, sub_tree_step(lib, st))

\* LibraryTree.sub_tree
sub_tree(lib, t, subroot_id) ==
    [ root |-> sub_tree_begin(lib, t, subroot_id).root,
      pages |-> sub_tree_loop(lib, [ pages |-> sub_tree_begin(lib, t, subroot_id).pages,
                                    queue |-> sub_tree_begin(lib, t, subroot_id).queue ]).pages ]

ContentFilter(page_title_include, page_id_include, page_title_exclude, root_page_id) ==
    [ page_title_include |-> page_title_include,
      page_id_include |-> page_id_include,
      page_title_exclude |-> page_title_exclude,
      root_page_id |-> root_page_id ]

\* the filters the arguments may ask for
ContentFilters ==
    { ContentFilter(ti, ii, te, r) :
        ti \in {None, "alpha"}, ii \in {None, "2", "2, 3"}, te \in {None, "bet"},
        r \in {None, "2"} }

\* is_selected of ContentFilter.filter
is_selected(lib, cf, page) ==
    /\ cf.page_title_include = None \/ re_search(cf.page_title_include, lib.title[page])
    /\ \/ cf.page_id_include = None
       \/ \E i \in DOMAIN split(cf.page_id_include) :
            lib.id[page] = strip(split(cf.page_id_include)[i])
    /\ cf.page_title_exclude = None \/ ~re_search(cf.page_title_exclude, lib.title[page])

Elements(seq) == { seq[i] : i \in DOMAIN seq }

\* the mutant: the result is taken from the whole tree, not from the sub-tree
filter_whole_tree(lib, t, cf) ==
    LET page_tree == IF cf.root_page_id # None THEN sub_tree(lib, t, cf.root_page_id) ELSE t
        selected_ids ==
            { lib.id[selected_page] :
                selected_page \in
                  UNION { Elements(self_and_parents(lib, page)) :
                            page \in { p \in Elements(PageValues(page_tree.pages)) :
                                         is_selected(lib, cf, p) } } }
    IN  SelectSeq(PageValues(t.pages), LAMBDA page : lib.id[page] \in selected_ids)

\* ContentFilter.filter: the pages of the tree, or of the sub-tree of
\* root_page_id, whose id is that of a selected page or of one of its parents,
\* in the order of page_tree.pages
filter(lib, t, cf) ==
    LET page_tree == IF cf.root_page_id # None THEN sub_tree(lib, t, cf.root_page_id) ELSE t
        selected_ids ==
            { lib.id[selected_page] :
                selected_page \in
                  UNION { Elements(self_and_parents(lib, page)) :
                            page \in { p \in Elements(PageValues(page_tree.pages)) :
                                         is_selected(lib, cf, p) } } }
    IN  SelectSeq(PageValues(page_tree.pages), LAMBDA page : lib.id[page] \in selected_ids)

\* what a call returned, or the exception it raised
Returned(call, arg, exc, value) ==
    [call |-> call, arg |-> arg, exc |-> exc, value |-> value]

\* nothing has run: no AssetProcessor call, no Processor.run
NoRun ==
    /\ bad_assets_threshold = -1
    /\ bad_assets_regex = None
    /\ s3_url_with_credentials = FALSE
    /\ s3_storage = EmptyStore
    /\ bad_assets_count = 0
    /\ archive = << >>
    /\ processed = {}
    /\ status = "idle"
    /\ asset_path = None
    /\ asset_urls = {}
    /\ always_fetch_online = FALSE
    /\ todo = << >>
    /\ tries = 0
    /\ tried = << >>
    /\ last = NoInvocation
    /\ nondenylisted_failures = 0
    /\ phase = "tree"
    /\ index = 0
    /\ selected_pages = << >>
    /\ items_to_download = << >>
    /\ rewriter_items = << >>
    /\ refs = << >>
    /\ discovered = << >>
    /\ resolved = {}

\* processor.py 369: the tree get_page_tree built, and the filter of the run
InitTree ==
    /\ NoRun
    /\ \E tree_data \in TreeDatas :
         /\ library = get_page_tree(tree_data).library
         /\ pages_tree = get_page_tree(tree_data).tree
    /\ content_filter \in ContentFilters
    /\ lib_op = "idle"
    /\ tree = None
    /\ children_to_explore = << >>
    /\ visits = << >>
    /\ returned = None
    /\ probe_headers = None
    /\ NoMain
    /\ NoImage
    /\ NoIllustration
    /\ NoProgress
    /\ NoWorkers

\* processor.py 370: content_filter.filter(pages_tree); pages[root_page_id]
\* raises KeyError when the tree has no such page
content_filter_filter ==
    /\ lib_op = "idle"
    /\ lib_op' = "returned"
    /\ returned' =
         IF content_filter.root_page_id # None
            /\ content_filter.root_page_id \notin PageIds(pages_tree.pages)
         THEN Returned("filter", None, "KeyError", << >>)
         ELSE Returned("filter", None, "none", filter(library, pages_tree, content_filter))
    /\ UNCHANGED << probe_headers, library, pages_tree, content_filter, tree, children_to_explore, visits >>
    /\ UNCHANGED << assetVars, runVars, mainVars, imageVars, illustrationVars, progressVars, workerVars >>

\* page.self_and_parents is read for a page of the tree
get_self_and_parents(page) ==
    /\ lib_op = "idle"
    /\ page \in Elements(PageValues(pages_tree.pages))
    /\ lib_op' = "returned"
    /\ returned' = Returned("self_and_parents", page, "none", self_and_parents(library, page))
    /\ UNCHANGED << probe_headers, library, pages_tree, content_filter, tree, children_to_explore, visits >>
    /\ UNCHANGED << assetVars, runVars, mainVars, imageVars, illustrationVars, progressVars, workerVars >>

NextTree ==
    \/ content_filter_filter
    \/ \E page \in 1..MaxNodes : get_self_and_parents(page)

SpecTree == InitTree /\ [][NextTree]_vars

\* a LibraryTree as get_page_tree builds it from a response that may repeat
\* ids, or one built with a children list that lists a page once more
InitSubTree ==
    /\ NoRun
    /\ \E tree_data \in MalformedTreeDatas :
         /\ pages_tree = get_page_tree(tree_data).tree
         /\ \/ library = get_page_tree(tree_data).library
            \/ \E page, child \in DOMAIN tree_data.up :
                 library = WithChild(get_page_tree(tree_data).library, page, child)
    /\ content_filter = None
    /\ lib_op = "idle"
    /\ tree = None
    /\ children_to_explore = << >>
    /\ visits = << >>
    /\ returned = None
    /\ probe_headers = None
    /\ NoMain
    /\ NoImage
    /\ NoIllustration
    /\ NoProgress
    /\ NoWorkers

\* client.py 74-77: sub_tree is entered; pages[subroot_id] raises KeyError when
\* the tree has no such page
sub_tree_call(subroot_id) ==
    /\ lib_op = "idle"
    /\ IF subroot_id \in PageIds(pages_tree.pages)
       THEN /\ lib_op' = "sub_tree"
            /\ tree' = [ root |-> sub_tree_begin(library, pages_tree, subroot_id).root,
                         pages |-> sub_tree_begin(library, pages_tree, subroot_id).pages ]
            /\ children_to_explore' = sub_tree_begin(library, pages_tree, subroot_id).queue
            /\ returned' = Returned("sub_tree", subroot_id, "none", None)
       ELSE /\ lib_op' = "returned"
            /\ returned' = Returned("sub_tree", subroot_id, "KeyError", None)
            /\ UNCHANGED << tree, children_to_explore >>
    /\ UNCHANGED << probe_headers, library, pages_tree, content_filter, visits >>
    /\ UNCHANGED << assetVars, runVars, mainVars, imageVars, illustrationVars, progressVars, workerVars >>

\* client.py 78-84: one turn of the while loop
sub_tree_turn ==
    /\ lib_op = "sub_tree"
    /\ children_to_explore # << >>
    /\ LET st == sub_tree_step(library, [pages |-> tree.pages, queue |-> children_to_explore])
       IN  /\ tree' = [tree EXCEPT !.pages = st.pages]
           /\ children_to_explore' = st.queue
           /\ visits' = Append(visits, [ page |-> Head(children_to_explore),
                                        added |-> st.pages # tree.pages ])
    /\ UNCHANGED << probe_headers, library, pages_tree, content_filter, lib_op, returned >>
    /\ UNCHANGED << assetVars, runVars, mainVars, imageVars, illustrationVars, progressVars, workerVars >>

\* client.py 78, 85: the list is empty, the tree is returned
sub_tree_return ==
    /\ lib_op = "sub_tree"
    /\ children_to_explore = << >>
    /\ lib_op' = "returned"
    /\ returned' = [returned EXCEPT !.value = tree]
    /\ UNCHANGED << probe_headers, library, pages_tree, content_filter, tree, children_to_explore, visits >>
    /\ UNCHANGED << assetVars, runVars, mainVars, imageVars, illustrationVars, progressVars, workerVars >>

NextSubTree ==
    \/ \E subroot_id \in { ToString(i) : i \in 1..MaxNodes } : sub_tree_call(subroot_id)
    \/ sub_tree_turn
    \/ sub_tree_return

SpecSubTree == InitSubTree /\ [][NextSubTree]_vars

(* ------------------------- response headers --------------------------- *)

\* the headers a response may carry; "" is an absent or empty header
AllHeaders ==
    { Headers(etag, last_modified, content_length, content_type) :
        etag \in {"", "e1", "e2"}, last_modified \in {"", "lm1"},
        content_length \in {"", "10"},
        content_type \in { NoContentType, ContentType("image/png", ""),
                           ContentType("image/png", "charset=binary"),
                           ContentType("text/css", "") } }

\* a URL is about to be probed; its response will carry the headers
InitHeaders ==
    /\ NoRun
    /\ library = None
    /\ pages_tree = None
    /\ content_filter = None
    /\ lib_op = "idle"
    /\ tree = None
    /\ children_to_explore = << >>
    /\ visits = << >>
    /\ returned = None
    /\ probe_headers \in AllHeaders
    /\ NoMain
    /\ NoImage
    /\ NoIllustration
    /\ NoProgress
    /\ NoWorkers

\* asset.py 131-145: stream_file gets the first byte and the headers, or
\* raises; HeaderData is made of the headers
get_header_data(probe) ==
    /\ lib_op = "idle"
    /\ lib_op' = "returned"
    /\ returned' =
         IF probe = "ok"
         THEN Returned("_get_header_data_for", None, "none",
                       _get_header_data_for(probe_headers))
         ELSE Returned("_get_header_data_for", None, probe, None)
    /\ UNCHANGED << probe_headers, library, pages_tree, content_filter, tree,
                    children_to_explore, visits >>
    /\ UNCHANGED << assetVars, runVars, mainVars, imageVars, illustrationVars, progressVars, workerVars >>

NextHeaders == \E probe \in {"ok", "RequestException"} : get_header_data(probe)

SpecHeaders == InitHeaders /\ [][NextHeaders]_vars

(* ------------------------- main and exit codes ------------------------ *)

\* the mutant: the items are added before the metadata is configured
RunStepsItemsFirst ==
    << "validate_zimfile_creatable", "Creator", "get_home", "_fetch_zim_illustration",
       "add_items", "config_metadata" >>

\* what Processor.run does after the check of zim_path, in order; the last
\* step stands for everything from the first item added to the return
RunSteps ==
    << "validate_zimfile_creatable", "Creator", "get_home", "_fetch_zim_illustration",
       "config_metadata", "add_items" >>

\* what a step may raise
Raises == {"none", "Exception", "RequestException"}

\* the mutant: SystemExit is handled as any other exception
ExitCodeAlwaysOne(raised) == IF raised = "none" THEN 0 ELSE 1

\* the handlers of main: SystemExit is raised again as it is, any other
\* exception is replaced by SystemExit(1); a main that returns exits with 0
exit_code_of(raised) ==
    CASE raised = "none" -> 0
      [] raised = "SystemExit(2)" -> 2
      [] OTHER -> 1

Process(entry, pc, done, raised, exit_code) ==
    [entry |-> entry, pc |-> pc, done |-> done, raised |-> raised,
     exit_code |-> exit_code]

\* the process leaves main with what was raised
Exit(raised) ==
    Process(process.entry, "exited", process.done, raised, exit_code_of(raised))

\* a scraper process starts in one of the two mains; the archive it will
\* write may exist already
InitMain ==
    /\ NoRun
    /\ NoLibrary
    /\ NoImage
    /\ NoIllustration
    /\ NoProgress
    /\ NoWorkers
    /\ zim_exists \in BOOLEAN
    /\ overwrite_existing_zim \in BOOLEAN
    /\ \E entry \in {"__main__", "entrypoint"} :
         process = Process(entry, "prepare", << >>, "none", -1)

\* __main__.py 12-14, entrypoint.py 234-250: the context and the folders are
\* prepared, or an exception leaves the try block
prepare(raised) ==
    /\ process.pc = "prepare"
    /\ process' = IF raised = "none"
                  THEN Process(process.entry, "run", << "prepare" >>, "none", -1)
                  ELSE Exit(raised)
    /\ UNCHANGED << zim_exists, overwrite_existing_zim >>
    /\ UNCHANGED << assetVars, runVars, libVars, imageVars, illustrationVars, progressVars, workerVars >>

\* processor.py 239-244: an existing archive is removed when it may be
\* overwritten, otherwise run raises SystemExit(2)
run_check_zim_path ==
    /\ process.pc = "run"
    /\ IF zim_exists /\ ~overwrite_existing_zim
       THEN /\ process' = Exit("SystemExit(2)")
            /\ zim_exists' = zim_exists
       ELSE /\ process' = Process(process.entry, "steps", Append(process.done, "zim_path"),
                                  "none", -1)
            /\ zim_exists' = FALSE
    /\ UNCHANGED overwrite_existing_zim
    /\ UNCHANGED << assetVars, runVars, libVars, imageVars, illustrationVars, progressVars, workerVars >>

\* processor.py 246-434: the next step of run is made, or raises; after the
\* last one run returns and so does main
run_step(raised) ==
    /\ process.pc = "steps"
    /\ LET step == RunSteps[Len(process.done) - 1]
           done == Append(process.done, step)
       IN  process' =
             IF raised # "none" THEN Exit(raised)
             ELSE IF Len(done) - 2 = Len(RunSteps)
             THEN Process(process.entry, "exited", done, "none", exit_code_of("none"))
             ELSE Process(process.entry, "steps", done, "none", -1)
    /\ UNCHANGED << zim_exists, overwrite_existing_zim >>
    /\ UNCHANGED << assetVars, runVars, libVars, imageVars, illustrationVars, progressVars, workerVars >>

NextMain ==
    \/ \E raised \in Raises : prepare(raised)
    \/ run_check_zim_path
    \/ \E raised \in Raises : run_step(raised)

SpecMain == InitMain /\ [][NextMain]_vars

(* ----------------------- rewriting of attributes ---------------------- *)

\* the mutant: the anchor is rewritten as an image is, whatever its target
anchor_rewritten_always(ref, existing_zim_paths) ==
    LET rewrite_result == RewriteResult(ref.url, TRUE, existing_zim_paths)
    IN  IF ref.tag = "a"
        THEN IF startswith(rewrite_result.rewriten_url, library_path)
             THEN << "#/" >> \o SubSeq(rewrite_result.rewriten_url,
                                       Len(library_path) + 1,
                                       Len(rewrite_result.rewriten_url))
             ELSE rewrite_result.rewriten_url
        ELSE << "content/" >> \o rewrite_result.rewriten_url

\* rewrite_href_src_attributes, 586-604: the new value of an href or src of
\* an a or img tag
new_attr_value(ref, existing_zim_paths) ==
    IF ref.tag = "a"
    THEN LET rewrite_result == RewriteResult(ref.url, FALSE, existing_zim_paths)
         IN  IF startswith(rewrite_result.rewriten_url, library_path)
             THEN << "#/" >> \o SubSeq(rewrite_result.rewriten_url,
                                       Len(library_path) + 1,
                                       Len(rewrite_result.rewriten_url))
             ELSE rewrite_result.rewriten_url
    ELSE << "content/" >> \o RewriteResult(ref.url, TRUE, existing_zim_paths).rewriten_url

\* the anchors a page may hold: to the second page, to a page that is never
\* selected, to another site
Anchors ==
    { [tag |-> "a", url |-> PageUrl("2")],
      [tag |-> "a", url |-> HttpUrl("http", LibraryHost, "/2")],
      [tag |-> "a", url |-> PageUrl("0")],
      [tag |-> "a", url |-> HttpUrl("https", "cdn.example", "/a.png")] }

\* a page of a run with its selected pages is about to be rewritten
InitRewrite ==
    /\ bad_assets_threshold = -1
    /\ bad_assets_regex = None
    /\ s3_url_with_credentials = FALSE
    /\ s3_storage = EmptyStore
    /\ bad_assets_count = 0
    /\ archive = << >>
    /\ processed = {}
    /\ status = "idle"
    /\ asset_path = None
    /\ asset_urls = {}
    /\ always_fetch_online = FALSE
    /\ todo = << >>
    /\ tries = 0
    /\ tried = << >>
    /\ last = NoInvocation
    /\ nondenylisted_failures = 0
    /\ phase = "pages"
    /\ index = 1
    /\ \E n \in 1..MaxPages : selected_pages = [i \in 1..n |-> ToString(i)]
    /\ items_to_download = << >>
    /\ rewriter_items = << >>
    /\ refs = << >>
    /\ discovered = << >>
    /\ resolved = {}
    /\ NoLibrary
    /\ NoMain
    /\ NoImage
    /\ NoIllustration
    /\ NoProgress
    /\ NoWorkers

\* processor.py 479-490: the rewriter of the page rewrites its href and src
\* attributes, or a rule raises
HtmlRewriter_rewrite(references) ==
    /\ lib_op = "idle"
    /\ lib_op' = "returned"
    /\ refs' = references
    /\ IF rewrite_raises(references) = "none"
       THEN /\ rewriter_items' = rewrite_html(references, << >>)
            /\ returned' =
                 Returned("rewrite", None, "none",
                          [i \in DOMAIN references |->
                              new_attr_value(references[i],
                                             existing_html_pages(selected_pages))])
       ELSE /\ rewriter_items' = rewriter_items
            /\ returned' = Returned("rewrite", None, rewrite_raises(references), << >>)
    /\ UNCHANGED << phase, index, selected_pages, items_to_download, discovered,
                    resolved >>
    /\ UNCHANGED << library, pages_tree, content_filter, tree, children_to_explore,
                    visits, probe_headers >>
    /\ UNCHANGED << assetVars, mainVars, imageVars, illustrationVars, progressVars, workerVars >>

NextRewrite ==
    \E references \in Refs(HtmlRefs \cup Anchors \cup UnsupportedRefs) :
       HtmlRewriter_rewrite(references)

SpecRewrite == InitRewrite /\ [][NextRewrite]_vars

(* --------------------------- image transcoder ------------------------- *)

\* int(math.sqrt(x)) for the integer part n of x: the largest r with r * r <= n
int_sqrt(n) == CHOOSE r \in 0..n : r * r <= n /\ n < (r + 1) * (r + 1)

\* the mutant: the square root is rounded up
size_rounded_up(pixels, width, height) ==
    LET up(n) == CHOOSE r \in 0..(n + 1) : r * r >= n /\ (r = 0 \/ (r - 1) * (r - 1) < n)
    IN  [width |-> up((pixels * width) \div height),
         height |-> up((pixels * height) \div width)]

\* asset.py 178-193: the size asked of resize_cover; the quotient is a float,
\* and the integer part of its root is the root of its integer part
resize_cover_size(pixels, width, height) ==
    [width |-> int_sqrt((pixels * width) \div height),
     height |-> int_sqrt((pixels * height) \div width)]

\* asset.py 172-194: an image within the budget is saved as it is, a larger
\* one is saved as resize_cover returns it, in the size asked for
Saved(method, size) ==
    [method |-> method, width |-> size.width, height |-> size.height]

\* an image is decoded under a configured budget
InitResize ==
    /\ NoRun
    /\ NoLibrary
    /\ NoMain
    /\ NoIllustration
    /\ NoProgress
    /\ NoWorkers
    /\ image \in [width : 1..MaxSide, height : 1..MaxSide]
    /\ maximum_image_pixels \in 1..MaxPixels
    /\ optimized = Saved("none", [width |-> 0, height |-> 0])

\* asset.py 171-194: the image is saved into optimized
save_optimized ==
    /\ optimized.method = "none"
    /\ optimized' =
         IF image.width * image.height <= maximum_image_pixels
         THEN Saved("save", image)
         ELSE Saved("resize_cover",
                    resize_cover_size(maximum_image_pixels, image.width, image.height))
    /\ UNCHANGED << image, maximum_image_pixels >>
    /\ UNCHANGED << assetVars, runVars, libVars, mainVars, illustrationVars, progressVars, workerVars >>

NextResize == save_optimized

SpecResize == InitResize /\ [][NextResize]_vars

(* ---------------------------- illustration ---------------------------- *)

\* the --illustration-url of a run that gives one
IllustrationOverride == "https://cdn.example/illustration.jpg"

\* the icons a home page may link
HomeIcons == { "https://lib.example/favicon.svg", "https://lib.example/touch-icon.png" }

\* what the network and the image library do with one candidate: stream_file
\* and format_for return or raise, and so do the conversion and resize_image;
\* a step that is not reached is left at "ok"
IconEnvs ==
    { e \in [ download : {"ok", "RequestException"},
              format : {"SVG", "PNG", "JPEG", "ValueError"},
              convert : {"ok", "error"},
              resize : {"ok", "error"} ] :
        /\ e.download # "ok" => e.format = "PNG"
        /\ e.format \in {"PNG", "ValueError"} => e.convert = "ok"
        /\ (e.format = "ValueError" \/ e.convert # "ok") => e.resize = "ok" }

\* the mutant: the icons of the home page are candidates after the override
override_then_icons(url, icons) == IF url # None THEN << url >> \o icons ELSE icons

\* processor.py 518-520: the override alone when there is one, else the icons
illustration_candidates(url, icons) == IF url # None THEN << url >> ELSE icons

\* processor.py 521-546: the body of the try for one candidate
try_icon(env) ==
    IF env.download # "ok" THEN [exc |-> "RequestException", converted_by |-> None]
    ELSE IF env.format = "ValueError" THEN [exc |-> "ValueError", converted_by |-> None]
    ELSE IF env.format = "SVG"
         THEN IF env.convert # "ok" THEN [exc |-> "Exception", converted_by |-> None]
              ELSE IF env.resize # "ok" THEN [exc |-> "Exception", converted_by |-> None]
              ELSE [exc |-> "none", converted_by |-> "convert_svg2png"]
    ELSE IF env.format = "PNG"
         THEN IF env.resize # "ok" THEN [exc |-> "Exception", converted_by |-> None]
              ELSE [exc |-> "none", converted_by |-> "none"]
    ELSE IF env.convert # "ok" THEN [exc |-> "Exception", converted_by |-> None]
    ELSE IF env.resize # "ok" THEN [exc |-> "Exception", converted_by |-> None]
    ELSE [exc |-> "none", converted_by |-> "convert_image"]

\* a Processor with or without an illustration URL, and the icons of the home
\* page get_home returned
InitIllustration ==
    /\ NoRun
    /\ NoLibrary
    /\ NoMain
    /\ NoImage
    /\ NoProgress
    /\ NoWorkers
    /\ illustration_url \in {None, IllustrationOverride}
    /\ icons_urls \in UNION { [1..n -> HomeIcons] : n \in 0..MaxIcons }
    /\ icons_todo = << >>
    /\ icons_tried = << >>
    /\ illustration = [state |-> "idle", url |-> None, converted_by |-> None]

\* processor.py 518-520: _fetch_zim_illustration is entered
_fetch_zim_illustration ==
    /\ illustration.state = "idle"
    /\ illustration' = [illustration EXCEPT !.state = "running"]
    /\ icons_todo' = illustration_candidates(illustration_url, icons_urls)
    /\ UNCHANGED << illustration_url, icons_urls, icons_tried >>
    /\ UNCHANGED << assetVars, runVars, libVars, mainVars, imageVars, progressVars,
                    workerVars >>

\* processor.py 521-550: one turn of the loop; the candidate is returned, or
\* its exception is logged and the loop goes on
illustration_candidate(env) ==
    /\ illustration.state = "running"
    /\ icons_todo # << >>
    /\ icons_tried' = Append(icons_tried, [url |-> Head(icons_todo), env |-> env,
                                           exc |-> try_icon(env).exc])
    /\ IF try_icon(env).exc = "none"
       THEN /\ illustration' = [state |-> "returned", url |-> Head(icons_todo),
                                converted_by |-> try_icon(env).converted_by]
            /\ icons_todo' = icons_todo
       ELSE /\ illustration' = illustration
            /\ icons_todo' = Tail(icons_todo)
    /\ UNCHANGED << illustration_url, icons_urls >>
    /\ UNCHANGED << assetVars, runVars, libVars, mainVars, imageVars, progressVars,
                    workerVars >>

\* processor.py 551: no candidate is left
illustration_not_found ==
    /\ illustration.state = "running"
    /\ icons_todo = << >>
    /\ illustration' = [illustration EXCEPT !.state = "NoIllustrationFoundError"]
    /\ UNCHANGED << illustration_url, icons_urls, icons_todo, icons_tried >>
    /\ UNCHANGED << assetVars, runVars, libVars, mainVars, imageVars, progressVars,
                    workerVars >>

NextIllustration ==
    \/ _fetch_zim_illustration
    \/ \E env \in IconEnvs : illustration_candidate(env)
    \/ illustration_not_found

SpecIllustration == InitIllustration /\ [][NextIllustration]_vars

(* ------------------------------ progress ------------------------------ *)

\* the loops of Processor.run that count their items, in order: the files of
\* zimui_dist, the files of mathjax, the selected pages, the assets
CountedLoops == << "zimui", "mathjax", "pages", "assets" >>

\* processor.py 504-514: the pair _report_progress logs and writes
Progress(done, total) == [written |-> TRUE, done |-> done, total |-> total]

\* the mutant: the count of a loop replaces the total
set_total(total, count) == count

\* processor.py 299, 328, 391, 406: stats_items_total += the count of the loop
add_to_total(total, count) == total + count

\* where run is: before or in the loop that is index-th in CountedLoops
At(pc, i, left) == [pc |-> pc, loop |-> i, left |-> left]

\* processor.py 210-215: the counters of a new Processor
InitProgress ==
    /\ NoRun
    /\ NoLibrary
    /\ NoMain
    /\ NoImage
    /\ NoIllustration
    /\ NoWorkers
    /\ stats_items_done = 0
    /\ stats_items_total = 1
    /\ stats_file = [written |-> FALSE, done |-> 0, total |-> 0]
    /\ progress = At("init", 0, 0)

\* processor.py 225: run reports first
run_first_report ==
    /\ progress.pc = "init"
    /\ stats_file' = Progress(stats_items_done, stats_items_total)
    /\ progress' = At("count", 1, 0)
    /\ UNCHANGED << stats_items_done, stats_items_total >>
    /\ UNCHANGED << assetVars, runVars, libVars, mainVars, imageVars, illustrationVars,
                    workerVars >>

\* processor.py 299, 328, 391, 406: the items of the next loop are counted
\* and added to the total
run_count_items(count) ==
    /\ progress.pc = "count"
    /\ stats_items_total' = add_to_total(stats_items_total, count)
    /\ progress' = At("loop", progress.loop, count)
    /\ UNCHANGED << stats_items_done, stats_file >>
    /\ UNCHANGED << assetVars, runVars, libVars, mainVars, imageVars, illustrationVars,
                    workerVars >>

\* processor.py 300-302, 330-333, 398-400, 407-409: one turn of a loop: the
\* item is counted as done, run_pending reports when the ten seconds are
\* over, and the rest of the turn returns or raises
run_item(due, raises) ==
    /\ progress.pc = "loop"
    /\ progress.left > 0
    /\ stats_items_done' = stats_items_done + 1
    /\ stats_file' = IF due THEN Progress(stats_items_done', stats_items_total)
                     ELSE stats_file
    /\ progress' = IF raises THEN At("aborted", progress.loop, progress.left - 1)
                   ELSE At("loop", progress.loop, progress.left - 1)
    /\ UNCHANGED stats_items_total
    /\ UNCHANGED << assetVars, runVars, libVars, mainVars, imageVars, illustrationVars,
                    workerVars >>

\* a loop is over: the next one comes, or the end of run
run_loop_over ==
    /\ progress.pc = "loop"
    /\ progress.left = 0
    /\ progress' = IF progress.loop = Len(CountedLoops)
                   THEN At("end", progress.loop, 0)
                   ELSE At("count", progress.loop + 1, 0)
    /\ UNCHANGED << stats_items_done, stats_items_total, stats_file >>
    /\ UNCHANGED << assetVars, runVars, libVars, mainVars, imageVars, illustrationVars,
                    workerVars >>

\* a statement between two loops raises (the welcome image, a stylesheet,
\* the page tree) and run is left
run_raises ==
    /\ progress.pc = "count"
    /\ progress' = [progress EXCEPT !.pc = "aborted"]
    /\ UNCHANGED << stats_items_done, stats_items_total, stats_file >>
    /\ UNCHANGED << assetVars, runVars, libVars, mainVars, imageVars, illustrationVars,
                    workerVars >>

\* processor.py 429-434: the item added in __init__ is done, the last report
run_last_report ==
    /\ progress.pc = "end"
    /\ stats_items_done' = stats_items_done + 1
    /\ stats_file' = Progress(stats_items_done', stats_items_total)
    /\ progress' = At("done", progress.loop, 0)
    /\ UNCHANGED stats_items_total
    /\ UNCHANGED << assetVars, runVars, libVars, mainVars, imageVars, illustrationVars,
                    workerVars >>

NextProgress ==
    \/ run_first_report
    \/ \E count \in 0..MaxItems : run_count_items(count)
    \/ \E due, raises \in BOOLEAN : run_item(due, raises)
    \/ run_loop_over
    \/ run_raises
    \/ run_last_report

SpecProgress == InitProgress /\ [][NextProgress]_vars

(* ------------------------------ workers ------------------------------- *)

\* where a thread holds AssetProcessor.lock: asset.py 107 is a load and a
\* store of bad_assets_count, 112-115 the comparison
LockedPcs == { "count_load", "count_store", "threshold" }

Worker(pc, loaded, left) == [pc |-> pc, loaded |-> loaded, left |-> left]

\* the mutant: the handler does not wait for the lock
enter_unlocked(holder) == TRUE

\* asset.py 106: threading.Lock is acquired when no thread holds it
lock_acquire(holder) == holder = 0

\* the mutant: the lock is not released when OSError is raised
kept_on_raise(holder, raised) == IF raised THEN holder ELSE 0

\* asset.py 106-122: the with statement releases the lock when its body is
\* left, by its end or by the OSError
lock_release(holder, raised) == 0

\* the mutant: only the failure that passes the threshold is fatal
ThresholdReachedOnce(count, threshold) == threshold >= 0 /\ count = threshold + 1

\* asset.py 112-115, as the threads evaluate it
threshold_reached(count, threshold) == ThresholdReached(count, threshold)

\* what the steps of the threads leave alone
workerUnused ==
    << bad_assets_threshold, bad_assets_regex, s3_url_with_credentials, s3_storage,
       archive, processed, status, asset_path, asset_urls, always_fetch_online,
       todo, tries, tried, last, nondenylisted_failures, runVars, libVars, mainVars,
       imageVars, illustrationVars, progressVars >>

\* asset.py 69-74: one AssetProcessor, its counter at 0 and its lock free,
\* and the threads that will call process_asset on it
InitWorkers ==
    /\ bad_assets_threshold \in -1..MaxThreshold
    /\ bad_assets_regex = None
    /\ s3_url_with_credentials = FALSE
    /\ s3_storage = EmptyStore
    /\ bad_assets_count = 0
    /\ archive = << >>
    /\ processed = {}
    /\ status = "idle"
    /\ asset_path = None
    /\ asset_urls = {}
    /\ always_fetch_online = FALSE
    /\ todo = << >>
    /\ tries = 0
    /\ tried = << >>
    /\ last = NoInvocation
    /\ nondenylisted_failures = 0
    /\ phase = "assets"
    /\ index = 0
    /\ selected_pages = << >>
    /\ items_to_download = << >>
    /\ rewriter_items = << >>
    /\ refs = << >>
    /\ discovered = << >>
    /\ resolved = {}
    /\ NoLibrary
    /\ NoMain
    /\ NoImage
    /\ NoIllustration
    /\ NoProgress
    /\ workers = [w \in 1..MaxWorkers |-> Worker("candidate", 0, MaxCandidates)]
    /\ lock = 0
    /\ handled = << >>

\* asset.py 83-87: the loop of a thread takes its next candidate
worker_candidate(w) ==
    /\ workers[w].pc = "candidate"
    /\ workers[w].left > 0
    /\ workers' = [workers EXCEPT ![w].pc = "get_asset_content", ![w].left = @ - 1]
    /\ UNCHANGED << bad_assets_count, lock, handled, workerUnused >>

\* asset.py 88-92, 99-101: get_asset_content, with its probe, its downloads,
\* its calls of the cache and its transcoding, returns or raises
worker_get_asset_content(w, exc) ==
    /\ workers[w].pc = "get_asset_content"
    /\ workers' = [workers EXCEPT ![w].pc =
                      CASE exc = "none" -> "add_item_for"
                        [] exc = "KnownBadAssetFailedError" -> "candidate"
                        [] OTHER -> "lock"]
    /\ UNCHANGED << bad_assets_count, lock, handled, workerUnused >>

\* asset.py 94-98, 101: the content is added and the loop left, or
\* add_item_for raises
worker_add_item_for(w, exc) ==
    /\ workers[w].pc = "add_item_for"
    /\ workers' = [workers EXCEPT ![w].pc = IF exc = "none" THEN "candidate" ELSE "lock"]
    /\ UNCHANGED << bad_assets_count, lock, handled, workerUnused >>

\* asset.py 106: with self.lock
worker_lock(w) ==
    /\ workers[w].pc = "lock"
    /\ lock_acquire(lock)
    /\ lock' = w
    /\ workers' = [workers EXCEPT ![w].pc = "count_load"]
    /\ UNCHANGED << bad_assets_count, handled, workerUnused >>

\* asset.py 107: self.bad_assets_count is read
worker_count_load(w) ==
    /\ workers[w].pc = "count_load"
    /\ workers' = [workers EXCEPT ![w].pc = "count_store", ![w].loaded = bad_assets_count]
    /\ UNCHANGED << bad_assets_count, lock, handled, workerUnused >>

\* asset.py 107: the value read plus one is stored
worker_count_store(w) ==
    /\ workers[w].pc = "count_store"
    /\ bad_assets_count' = workers[w].loaded + 1
    /\ workers' = [workers EXCEPT ![w].pc = "threshold"]
    /\ UNCHANGED << lock, handled, workerUnused >>

\* asset.py 112-122: OSError is raised out of the with statement and of the
\* thread's call, or the failure is logged and the loop goes on
worker_threshold(w) ==
    /\ workers[w].pc = "threshold"
    /\ LET raised == threshold_reached(bad_assets_count, bad_assets_threshold)
       IN  /\ handled' = Append(handled, [worker |-> w, count |-> bad_assets_count,
                                          raised |-> raised])
           /\ lock' = lock_release(lock, raised)
           /\ workers' = [workers EXCEPT ![w].pc = IF raised THEN "raised" ELSE "candidate"]
    /\ UNCHANGED << bad_assets_count, workerUnused >>

NextWorkers ==
    \E w \in 1..MaxWorkers :
       \/ worker_candidate(w)
       \/ \E exc \in {"none", "KnownBadAssetFailedError", "Exception"} :
            worker_get_asset_content(w, exc)
       \/ \E exc \in {"none", "Exception"} : worker_add_item_for(w, exc)
       \/ worker_lock(w)
       \/ worker_count_load(w)
       \/ worker_count_store(w)
       \/ worker_threshold(w)

SpecWorkers == InitWorkers /\ [][NextWorkers]_vars

(* ----------------------- claims on AssetProcessor ---------------------- *)

\* C28: an image of at most maximum_image_pixels pixels is saved in its own
\* size; a larger one is saved in the size (floor(sqrt(B*W/H)),
\* floor(sqrt(B*H/W))), each side the largest integer whose square times the
\* other side of the image is at most B times this side, and that size has at
\* most B pixels.
C28_ResizeWithinBudget ==
    optimized.method # "none" =>
       LET B == maximum_image_pixels
           W == image.width
           H == image.height
           w == optimized.width
           h == optimized.height
       IN  IF W * H <= B
           THEN optimized.method = "save" /\ w = W /\ h = H
           ELSE /\ optimized.method = "resize_cover"
                /\ w * w * H <= B * W /\ B * W < (w + 1) * (w + 1) * H
                /\ h * h * W <= B * H /\ B * H < (h + 1) * (h + 1) * W
                /\ w * h <= B

\* C28 witness: an image of 6 by 4 pixels under a budget of 6 is saved as 3 by 2
C28_Witness ==
    /\ image = [width |-> 6, height |-> 4]
    /\ maximum_image_pixels = 6
    /\ optimized = Saved("resize_cover", [width |-> 3, height |-> 2])

\* C40: when the image is resized, the width and the height handed to
\* resize_cover are both at least 1.
C40_ResizeTargetsPositive ==
    optimized.method = "resize_cover" =>
        /\ optimized.width >= 1
        /\ optimized.height >= 1

\* the archive items the current process_asset call added
AddedByCall == { i \in DOMAIN archive : archive[i].path = "content/" \o asset_path }

AllCandidatesFailed ==
    /\ tried # << >>
    /\ \A i \in DOMAIN tried : tried[i].exc # "none"

InEvents(e) == \E i \in DOMAIN last.events : last.events[i] = e

C2_ThresholdOnNonDenylisted ==
    bad_assets_threshold >= 0 =>
       /\ nondenylisted_failures > bad_assets_threshold => status = "raised"
       /\ ( /\ status = "raised"
            /\ ~regex_findall(bad_assets_regex, tried[Len(tried)].url) )
          => nondenylisted_failures > bad_assets_threshold

\* C3: failures of URLs that match the denylist never increment the counter,
\* whatever their kind: the counter never exceeds the number of failures of
\* URLs that do not match it.
C3_DenylistedNeverCounted == bad_assets_count <= nondenylisted_failures

\* C4: the fatal error is raised only once the counter has exceeded a
\* non-negative threshold; otherwise a call whose candidates all failed has
\* tried every candidate and returned, and its path is absent from the archive.
C4_FailureTolerated ==
    /\ status = "raised" =>
          bad_assets_threshold >= 0 /\ bad_assets_count > bad_assets_threshold
    /\ (status = "returned" /\ AllCandidatesFailed) =>
          /\ AddedByCall = {}
          /\ Len(tried) = Cardinality(asset_urls)

\* C4 witness: an asset whose candidates all failed, one of them counted, was
\* followed by a call for another asset, which was added to the archive
C4_Witness ==
    /\ bad_assets_count >= 1
    /\ status = "returned"
    /\ Cardinality(processed) = 2
    /\ Len(archive) = 1
    /\ Cardinality(AddedByCall) = 1

\* C5: with a negative threshold the fatal error is never raised, and the
\* counter still counts every failure of a URL that does not match the denylist.
C5_NegativeThresholdUnlimited ==
    bad_assets_threshold < 0 =>
       /\ status # "raised"
       /\ bad_assets_count >= nondenylisted_failures

\* C5 witness: a negative threshold, three failures counted, the run goes on
C5_Witness ==
    /\ bad_assets_threshold < 0
    /\ bad_assets_count >= 3
    /\ status = "returned"

\* C10: when the cache is configured and the lookup of _get_image_content is
\* made while the bucket holds an object for the path with the probed ident
\* and the transcoder's version, the invocation downloads no body, transcodes
\* nothing and uploads nothing, and what it returns is the cached object.
C10_CacheHitShortCircuits ==
    (s3_url_with_credentials /\ InEvents("s3_download") /\ last.cache_held) =>
       /\ ~InEvents("download")
       /\ ~InEvents("transcode")
       /\ ~InEvents("s3_upload")
       /\ last.exc \in {"none", "S3CacheError"}
       /\ last.exc = "none" => last.data = s3_storage["medium/" \o asset_path].data

\* C10 witness: a lookup that found the cached object and returned it
C10_Witness ==
    /\ last.cache_held
    /\ last.events = << "probe", "s3_download" >>
    /\ last.exc = "none"
    /\ last.data = "webp-cached"
    /\ Cardinality(AddedByCall) = 1

\* the last invocation looked the cache up and found nothing
CacheMiss ==
    /\ last.s3 # << >>
    /\ last.s3[1].op = "get"
    /\ last.s3[1].outcome = "NotFoundError"

\* C11: when a cache is configured and the lookup of _get_image_content is a
\* miss, an invocation that returns has downloaded the body, transcoded it and
\* then written the bytes it returns to the bucket under the key and meta
\* (ident, version) it looked up; when no cache is configured no get and no
\* put is ever made
C11_WriteThroughOnMiss ==
    /\ (CacheMiss /\ last.exc = "none") =>
          /\ last.events = << "probe", "s3_download", "download", "transcode",
                              "s3_upload" >>
          /\ Len(last.s3) = 2
          /\ last.s3[2].op = "put"
          /\ last.s3[2].key = last.s3[1].key
          /\ last.s3[2].meta = last.s3[1].meta
          /\ last.s3[2].data = last.data
          /\ last.s3[1].key = "medium/" \o asset_path
          /\ last.s3[1].meta.version = WebpVersion
          /\ last.s3[1].key \in DOMAIN s3_storage
          /\ s3_storage[last.s3[1].key] = S3Object(last.s3[1].meta, last.data)
    /\ ~s3_url_with_credentials =>
          /\ last.s3 = << >>
          /\ ~InEvents("s3_download")
          /\ ~InEvents("s3_upload")
          /\ s3_storage = EmptyStore

C11_Witness ==
    /\ s3_url_with_credentials
    /\ CacheMiss
    /\ last.exc = "none"
    /\ last.data = "webp"
    /\ InEvents("s3_upload")

\* C12: a lookup that finds nothing raises nothing and the invocation goes on
\* with the online download; a get or a put that fails otherwise ends the
\* invocation with S3CacheError, without a download after a failed get and
\* without bytes returned
C12_MissIsNoError ==
    \A i \in DOMAIN last.s3 :
      /\ (last.s3[i].op = "get" /\ last.s3[i].outcome = "NotFoundError") =>
            /\ Len(last.events) >= 3
            /\ last.events[2] = "s3_download"
            /\ last.events[3] = "download"
            /\ last.exc = "S3CacheError" => InEvents("s3_upload")
      /\ last.s3[i].outcome = "error" =>
            /\ last.exc = "S3CacheError"
            /\ last.data = None
            /\ last.s3[i].op = "get" => ~InEvents("download")

C12_Witness ==
    /\ last.s3 # << >>
    /\ last.s3[1].outcome = "error"
    /\ last.exc = "S3CacheError"

\* C13: when a cache is configured and its credentials are refused the
\* constructor raises S3InvalidCredentialsError and nothing is ever probed,
\* downloaded, transcoded or added; when no cache is configured the
\* constructor does not raise
C13_InvalidCredentialsFatal ==
    /\ status = "S3InvalidCredentialsError" =>
          /\ s3_url_with_credentials
          /\ processed = {}
          /\ last = NoInvocation
          /\ tried = << >>
          /\ archive = << >>
    /\ ~s3_url_with_credentials => status # "S3InvalidCredentialsError"

C13_Witness ==
    /\ s3_url_with_credentials
    /\ status = "S3InvalidCredentialsError"

\* C29: a candidate the denylist matches is invoked once whatever it raises,
\* its RequestException reaches process_asset as KnownBadAssetFailedError and
\* never as RequestException; a RequestException of a candidate the denylist
\* does not match ends the candidate only when max_time is over, otherwise
\* the candidate is invoked again; only such a candidate is ever invoked again.
C29_DenylistedTriedOnce ==
    /\ \A i \in DOMAIN tried :
          /\ regex_findall(bad_assets_regex, tried[i].url) =>
                /\ tried[i].attempts = 1
                /\ tried[i].exc # "RequestException"
          /\ tried[i].exc = "KnownBadAssetFailedError" =>
                regex_findall(bad_assets_regex, tried[i].url)
          /\ tried[i].exc = "RequestException" =>
                (tried[i].max_time_over \/ tried[i].attempts = MaxTries)
          /\ tried[i].attempts > 1 => ~regex_findall(bad_assets_regex, tried[i].url)
    /\ (status = "running" /\ tries > 0) =>
          /\ ~regex_findall(bad_assets_regex, Head(todo))
          /\ last.exc = "RequestException"

\* C29 witness: one call met a denylisted candidate that failed in its only
\* invocation and a candidate off the denylist that failed and was invoked again
C29_Witness ==
    \E i, j \in DOMAIN tried :
       /\ regex_findall(bad_assets_regex, tried[i].url)
       /\ tried[i].exc = "KnownBadAssetFailedError"
       /\ tried[i].attempts = 1
       /\ ~regex_findall(bad_assets_regex, tried[j].url)
       /\ tried[j].exc = "RequestException"
       /\ tried[j].attempts = MaxTries

\* what is left of a call: the candidates not yet done with, each worth the
\* invocations max_time allows, less the invocations the current one has had
CallMeasure == Len(todo) * MaxTries - tries

\* C30: a call of process_asset ends: while it runs a candidate is left and
\* the current one has not used up max_time, every step either ends the call
\* or brings it nearer to its end, a candidate that max_time ended is counted
\* and the loop goes on with the next one, and the call has ended only with a
\* candidate's content added, with every candidate tried, or with the error
\* of the threshold.
C30_CallTerminates ==
    /\ [](status = "running" => (todo # << >> /\ tries < MaxTries /\ CallMeasure > 0))
    /\ [][status = "running" =>
             \/ status' \in {"returned", "raised"}
             \/ (status' = "running" /\ CallMeasure' < CallMeasure)]_vars
    /\ [][(status = "running" /\ tried' # tried /\ last'.exc = "RequestException") =>
             /\ bad_assets_count' = bad_assets_count + 1
             /\ (status' = "raised" \/ todo' = Tail(todo))]_vars
    /\ [](status = "returned" =>
             \/ tried[Len(tried)].exc = "none"
             \/ Len(tried) = Cardinality(asset_urls))
    /\ [](status = "raised" => ThresholdReached(bad_assets_count, bad_assets_threshold))

\* C30 witness: a call of two candidates that both failed until max_time was
\* over has returned
C30_Witness ==
    /\ status = "returned"
    /\ Len(tried) = 2
    /\ \A i \in DOMAIN tried :
          tried[i].exc = "RequestException" /\ tried[i].attempts = MaxTries

\* an invocation of get_asset_content has been made for the current call
Invoked == last.events # << >>

\* C31: get_asset_content asks _get_image_content for the content exactly
\* when always_fetch_online is false and the part of the probed content type
\* before the ";" is a supported image type; with always_fetch_online no
\* header is probed and the bucket is not called; and whenever the image path
\* is not taken and the probe did not raise, the only request after the probe
\* is the plain download, whose bytes are returned as they are, with no
\* transcoding and no call of the bucket.
C31_ImagePathIffSupportedImage ==
    Invoked =>
      /\ last.via = "_get_image_content" <=>
            /\ ~always_fetch_online
            /\ last.content_type.mime \in SUPPORTED_IMAGE_MIME_TYPES
      /\ always_fetch_online =>
            /\ ~InEvents("probe")
            /\ ~InEvents("s3_download")
            /\ ~InEvents("s3_upload")
            /\ last.s3 = << >>
            /\ last.content_type = NoContentType
      /\ ~always_fetch_online => last.events[1] = "probe"
      /\ last.via = "none" =>
            /\ ~always_fetch_online
            /\ last.events = << "probe" >>
            /\ last.exc \in {"RequestException", "KnownBadAssetFailedError"}
      /\ last.via \notin {"_get_image_content", "none"} =>
            /\ last.via = "_download_from_online"
            /\ last.events = IF always_fetch_online THEN << "download" >>
                             ELSE << "probe", "download" >>
            /\ last.s3 = << >>
            /\ last.exc = "none" => last.data = "raw"
            /\ last.exc # "none" => last.data = None

\* C31 witness: a probe answered with a supported image type followed by
\* parameters, and the invocation took the image path
C31_Witness ==
    /\ Invoked
    /\ ~always_fetch_online
    /\ last.content_type.params # ""
    /\ last.content_type.mime \in SUPPORTED_IMAGE_MIME_TYPES
    /\ last.via = "_get_image_content"

\* C39: an invocation that ends with S3CacheError, raised by the lookup or by
\* the write-through, is the candidate's last one: the candidate is not
\* invoked again, it yields no bytes and nothing is added for it even when
\* the download and the transcoding were done, the counter goes up by one,
\* and the call raises the threshold's error or goes on with the next
\* candidate, as for any other counted failure.
C39_CacheErrorIsCandidateFailure ==
    [][(status = "running" /\ last' # last /\ last'.exc = "S3CacheError") =>
          /\ Len(tried') = Len(tried) + 1
          /\ tried' = Append(tried, tried'[Len(tried')])
          /\ tried'[Len(tried')].url = Head(todo)
          /\ tried'[Len(tried')].exc = "S3CacheError"
          /\ tries' = 0
          /\ last'.data = None
          /\ archive' = archive
          /\ bad_assets_count' = bad_assets_count + 1
          /\ IF ThresholdReached(bad_assets_count', bad_assets_threshold)
             THEN status' = "raised"
             ELSE /\ todo' = Tail(todo)
                  /\ status' = IF Tail(todo) = << >> THEN "returned" ELSE "running"]_vars

\* C39 witness: the write-through failed after the download and the
\* transcoding, the candidate was counted and another one is tried next
C39_Witness ==
    /\ status = "running"
    /\ tries = 0
    /\ tried # << >>
    /\ tried[Len(tried)].exc = "S3CacheError"
    /\ last.events = << "probe", "s3_download", "download", "transcode", "s3_upload" >>
    /\ last.data = None
    /\ bad_assets_count = 1
    /\ todo # << >>

\* C36: a call of process_asset that ends with the path added to the archive
\* leaves the counter as it was; stated for the first call of a run, which
\* starts with the counter at 0.
C36_AddedAssetLeavesCounter ==
    (status = "returned" /\ processed = {asset_path} /\ archive # << >>) =>
        bad_assets_count = 0

(* ------------------------ claims on Processor.run ---------------------- *)

\* the URLs discovered for a path, in the order the rewriters first met them
FirstSeenOrder(path) == SelectSeq(discovered, LAMBDA u : normalize(u) = path)

Found == { discovered[i] : i \in DOMAIN discovered }

Count(path) == Cardinality({ i \in DOMAIN archive : archive[i].path = path })

\* C6: the candidates of a path are attempted in the order in which the
\* rewriters first saw them: the i-th attempt of the resolution loop is the
\* i-th discovered URL of the path.
C6_FirstSeenOrder ==
    (phase = "assets" /\ status # "idle") =>
       \A i \in DOMAIN tried : tried[i].url = FirstSeenOrder(asset_path)[i]

\* the paths Processor.run writes for the logo, the configuration, the
\* stylesheets and the pages
ReservedPaths ==
    { "content/logo.png", "content/config.json", "content/shared.json",
      "content/screen.css", "content/print.css", "content/inline.css" }
    \cup { "content/page_content_" \o selected_pages[i] \o ".json" : i \in DOMAIN selected_pages }

\* C7: no path is added to the archive twice; a run that reaches its end has
\* added every stylesheet and every selected page once; every asset a
\* candidate yielded bytes for is in the archive once, under content/<path>;
\* and no scheduled asset would be stored under a path of the logo, the
\* configuration, a stylesheet or a page.
C7_EachPathOnce ==
    /\ \A i, j \in DOMAIN archive : archive[i].path = archive[j].path => i = j
    /\ phase = "done" =>
          /\ \A i \in DOMAIN CssFiles : Count("content/" \o CssFiles[i]) = 1
          /\ \A i \in DOMAIN selected_pages :
                Count("content/page_content_" \o selected_pages[i] \o ".json") = 1
    /\ \A path \in resolved : Count("content/" \o path) = 1
    /\ \A path \in Keys(items_to_download) : "content/" \o path \notin ReservedPaths

\* C7 witness: a finished run with two pages and two resolved assets, one of
\* them the asset of the URL https://logo.png
C7_Witness ==
    /\ phase = "done"
    /\ Len(selected_pages) = 2
    /\ resolved = { "logo.png/", "cdn.example/a.png" }
    /\ Len(archive) = 14

ScheduledSet == { Scheduled(refs)[i] : i \in DOMAIN Scheduled(refs) }

\* C8: after a rewriter has met the references of a stylesheet or a page, its
\* items_to_download holds one key per normalized path of the scheduled
\* references, no key twice, and under each key every scheduled URL that
\* normalizes to it.
C8_OneKeyPerPath ==
    /\ \A i, j \in DOMAIN rewriter_items :
          rewriter_items[i].path = rewriter_items[j].path => i = j
    /\ Keys(rewriter_items) = { normalize(u) : u \in ScheduledSet }
    /\ \A i \in DOMAIN rewriter_items :
          rewriter_items[i].urls =
             { u \in ScheduledSet : normalize(u) = rewriter_items[i].path }

\* C8 witness: a page whose two img references differ and normalize to the
\* same path: one key, both URLs under it
C8_Witness ==
    /\ Len(refs) = 2
    /\ refs[1].tag = "img"
    /\ refs[2].tag = "img"
    /\ Len(rewriter_items) = 1
    /\ Cardinality(rewriter_items[1].urls) = 2

\* C9: the run's map holds, for every path, exactly the URLs the passes so far
\* have scheduled for it, and a pass never removes a path or a URL from it.
C9_MapOnlyGrows ==
    /\ [](/\ Keys(items_to_download) = { normalize(u) : u \in Found }
          /\ \A i \in DOMAIN items_to_download :
                items_to_download[i].urls =
                   { u \in Found : normalize(u) = items_to_download[i].path })
    /\ [][\A i \in DOMAIN items_to_download :
             /\ HasKey(items_to_download', items_to_download[i].path)
             /\ items_to_download[i].urls
                   \subseteq Get(items_to_download', items_to_download[i].path)]_vars

\* C9 witness: a path whose two URLs came from different passes: the last
\* pass scheduled one of them, the map holds both
C9_Witness ==
    \E i \in DOMAIN items_to_download :
       /\ Cardinality(items_to_download[i].urls) = 2
       /\ HasKey(rewriter_items, items_to_download[i].path)
       /\ Cardinality(Get(rewriter_items, items_to_download[i].path)) = 1

\* the asset loop has taken an item of the map, or an asset is in the archive
AssetPassStarted ==
    \/ processed # {}
    \/ resolved # {}
    \/ \E i \in DOMAIN archive :
          \E path \in Keys(items_to_download) : archive[i].path = "content/" \o path

\* every stylesheet and every selected page is rewritten and in the archive
AllRewritten ==
    /\ \A i \in DOMAIN CssFiles : Count("content/" \o CssFiles[i]) = 1
    /\ selected_pages # << >>
    /\ \A i \in DOMAIN selected_pages :
          Count("content/page_content_" \o selected_pages[i] \o ".json") = 1

\* C22: no asset of the map is fetched or added to the archive before every
\* stylesheet and every selected page has been rewritten, and once the asset
\* loop has started the map is not extended or changed any more.
C22_StrictSecondPass ==
    /\ []((AssetPassStarted \/ phase \in {"assets", "done"}) => AllRewritten)
    /\ [][(AssetPassStarted \/ phase \in {"assets", "done"}) =>
             items_to_download' = items_to_download]_vars

\* C22 witness: two pages were rewritten, then an asset of the map was added
C22_Witness ==
    /\ phase = "assets"
    /\ Len(selected_pages) = 2
    /\ resolved # {}
    /\ \E i \in DOMAIN archive :
          \E path \in resolved : archive[i].path = "content/" \o path

\* what fetching and rewriting a page may raise
PageExceptions ==
    { "RequestException", "LibreTextsParsingError", "UnsupportedTagError", "ValueError" }

\* C24: a page that was rewritten and added held no picture and no href or
\* src on a tag other than a and img; when a page raised, run was left: the
\* page and the pages after it are not in the archive, no asset was fetched
\* or added, and nothing is done any more.
C24_PageFailureIsFatal ==
    /\ [](\A i \in DOMAIN refs :
             /\ refs[i].tag # "picture"
             /\ refs[i].url # NoAttribute => refs[i].tag \in {"a", "img", "url"})
    /\ [](status \in PageExceptions =>
             /\ phase = "aborted"
             /\ \A i \in DOMAIN selected_pages :
                   i >= index =>
                      Count("content/page_content_" \o selected_pages[i] \o ".json") = 0
             /\ ~AssetPassStarted)
    /\ [][(status \in PageExceptions) => vars' = vars]_vars

\* C24 witness: the first of two pages was added and the second, holding a
\* picture, raised
C24_Witness ==
    /\ phase = "aborted"
    /\ status = "UnsupportedTagError"
    /\ Len(selected_pages) = 2
    /\ index = 2
    /\ Count("content/page_content_1.json") = 1
    /\ items_to_download # << >>

\* C27: after a stylesheet is rewritten, every http(s) URL it refers to is in
\* the rewriter's items_to_download and in the run's, under the ZIM path of
\* the URL, whatever rewrite_all_url the rewriter was called with; and every
\* asset a candidate yielded bytes for is a path of the map and is in the
\* archive under "content/" followed by its path.
C27_CssUrlsScheduled ==
    /\ \A i \in DOMAIN refs :
          (refs[i].tag = "url" /\ refs[i].url.scheme \in {"http", "https"}) =>
             /\ HasKey(rewriter_items, refs[i].url.host \o
                          (IF refs[i].url.path = "" THEN "/" ELSE refs[i].url.path))
             /\ refs[i].url \in Get(rewriter_items, normalize(refs[i].url))
             /\ HasKey(items_to_download, normalize(refs[i].url))
             /\ refs[i].url \in Get(items_to_download, normalize(refs[i].url))
    /\ \A path \in resolved :
          /\ HasKey(items_to_download, path)
          /\ \E i \in DOMAIN archive : archive[i].path = "content/" \o path

\* C27 witness: the second stylesheet was rewritten, it refers to two URLs of
\* one path and both are scheduled under it
C27_Witness ==
    /\ phase = "css"
    /\ index = 3
    /\ Len(refs) = 2
    /\ refs[1].tag = "url"
    /\ refs[1].url = HttpUrl("http", "cdn.example", "/a.png")
    /\ refs[2].url = HttpUrl("https", "cdn.example", "/a.png")
    /\ Len(rewriter_items) = 1
    /\ rewriter_items[1].path = "cdn.example/a.png"
    /\ Cardinality(rewriter_items[1].urls) = 2

(* ------------------ claims on the rewriting of attributes -------------- *)

Rewritten ==
    /\ lib_op = "returned"
    /\ returned.call = "rewrite"
    /\ returned.exc = "none"

\* C25: the href of an anchor becomes "#/" followed by the path of its target
\* below the library exactly when the target is one of the selected pages;
\* any other href becomes the absolute URL of its target; and the rewriter
\* schedules nothing but the img references of the page.
C25_AnchorsToSelectedPages ==
    Rewritten =>
       /\ \A i \in DOMAIN refs :
             refs[i].tag = "a" =>
                LET value == returned.value[i]
                    url == refs[i].url
                    selected == \E j \in DOMAIN selected_pages :
                                   /\ url.host = LibraryHost
                                   /\ url.path = "/" \o selected_pages[j]
                IN  /\ value[1] = "#/" <=> selected
                    /\ selected => value = << "#/", selected_pages[
                                      CHOOSE j \in DOMAIN selected_pages :
                                         url.path = "/" \o selected_pages[j]] >>
                    /\ ~selected =>
                          /\ value[1] = url.scheme \o "://"
                          /\ value[2] = url.host
       /\ Keys(rewriter_items) \subseteq
             { normalize(refs[i].url) : i \in { j \in DOMAIN refs : refs[j].tag = "img" } }

\* C25 witness: a page of a run of two pages with an anchor to the second page
\* and an anchor to another site
C25_Witness ==
    /\ Rewritten
    /\ Len(selected_pages) = 2
    /\ Len(refs) = 2
    /\ refs[1] = [tag |-> "a", url |-> PageUrl("2")]
    /\ returned.value[1] = << "#/", "2" >>
    /\ refs[2] = [tag |-> "a", url |-> HttpUrl("https", "cdn.example", "/a.png")]
    /\ returned.value[2] = << "https://", "cdn.example", "/", "a.png" >>

\* C26: after a page is rewritten, the src or href of each of its img tags is
\* "content/" followed by the ZIM path of its target, and the rewriter's
\* items_to_download holds that path with the URL of the target.
C26_ImgRewrittenAndScheduled ==
    Rewritten =>
       \A i \in DOMAIN refs :
          refs[i].tag = "img" =>
             /\ returned.value[i] = << "content/" >> \o path_text(refs[i].url)
             /\ HasKey(rewriter_items, normalize(refs[i].url))
             /\ refs[i].url \in Get(rewriter_items, normalize(refs[i].url))

(* ------------------------ claims on exit codes ------------------------ *)

Exited == process.pc = "exited"

Done(step) == \E i \in DOMAIN process.done : process.done[i] = step

\* C20: when the archive exists and may not be overwritten, run ends the
\* process with exit code 2 and has not checked the folder, created the
\* archive, fetched the home page or added an item; a process that any other
\* failure ends has exit code 1
C20_ExitCodes ==
    /\ (process.pc # "off" /\ zim_exists /\ ~overwrite_existing_zim) =>
          /\ \A i \in DOMAIN RunSteps : ~Done(RunSteps[i])
          /\ (Exited /\ Done("prepare")) => process.exit_code = 2
    /\ (Exited /\ process.raised \notin {"none", "SystemExit(2)"}) =>
          process.exit_code = 1
    /\ (Exited /\ process.exit_code = 2) =>
          /\ zim_exists /\ ~overwrite_existing_zim
          /\ process.done = << "prepare" >>

C20_Witness ==
    /\ Exited
    /\ zim_exists
    /\ ~overwrite_existing_zim
    /\ process.exit_code = 2
    /\ process.done = << "prepare" >>

\* the place of a step among the steps the process has made
Position(step) == CHOOSE i \in DOMAIN process.done : process.done[i] = step

\* the process is about to add its first item
AboutToAdd ==
    /\ process.pc = "steps"
    /\ RunSteps[Len(process.done) - 1] = "add_items"

\* C23: when the first item is about to be added, and whenever the items have
\* been added, config_metadata has been called before; and whenever
\* config_metadata has been called, the illustration it is given had been
\* fetched before.
C23_MetadataBeforeItems ==
    /\ AboutToAdd => Done("config_metadata")
    /\ Done("add_items") =>
          /\ Done("config_metadata")
          /\ Position("config_metadata") < Position("add_items")
    /\ Done("config_metadata") =>
          /\ Done("_fetch_zim_illustration")
          /\ Position("_fetch_zim_illustration") < Position("config_metadata")

\* C23 witness: a run that has added its items and returned
C23_Witness ==
    /\ Exited
    /\ process.exit_code = 0
    /\ Done("add_items")
    /\ Done("config_metadata")
    /\ Done("_fetch_zim_illustration")

(* ---------------------- claims on response headers -------------------- *)

HeaderDataReturned ==
    /\ lib_op = "returned"
    /\ returned.call = "_get_header_data_for"
    /\ returned.exc = "none"

\* C19: the ident of the header data is the first non-empty header among
\* ETag, Last-Modified and Content-Length, in this order, and "-1" when all
\* three are missing; the content type is the Content-Type header as received
C19_FingerprintPriority ==
    HeaderDataReturned =>
      /\ probe_headers.ETag # "" => returned.value.ident = probe_headers.ETag
      /\ (probe_headers.ETag = "" /\ probe_headers.LastModified # "") =>
            returned.value.ident = probe_headers.LastModified
      /\ (probe_headers.ETag = "" /\ probe_headers.LastModified = "" /\ probe_headers.ContentLength # "") =>
            returned.value.ident = probe_headers.ContentLength
      /\ (probe_headers.ETag = "" /\ probe_headers.LastModified = "" /\ probe_headers.ContentLength = "") =>
            returned.value.ident = "-1"
      /\ returned.value.content_type = probe_headers.ContentType

\* a response with both ETag and Last-Modified: the ident is the ETag
C19_Witness ==
    /\ HeaderDataReturned
    /\ probe_headers.ETag = "e2"
    /\ probe_headers.LastModified = "lm1"
    /\ returned.value.ident = "e2"
    /\ returned.value.content_type = ContentType("image/png", "charset=binary")

(* ------------------------- claims on the lock -------------------------- *)

\* the threads that are between the load of the counter and the comparison
InHandler == { w \in DOMAIN workers : workers[w].pc \in LockedPcs }

\* the counted failures that did not raise
Tolerated == { i \in DOMAIN handled : ~handled[i].raised }

\* C32: no increment is lost and the comparison sees the value the thread
\* stored itself: the i-th counted failure compares i, at most one thread is
\* between the load and the comparison, when none is there the counter is
\* the number of counted failures, and with a threshold T >= 0 at most T
\* counted failures end without the error.
C32_NoLostIncrement ==
    /\ Cardinality(InHandler) <= 1
    /\ \A i \in DOMAIN handled : handled[i].count = i
    /\ InHandler = {} => bad_assets_count = Len(handled)
    /\ bad_assets_threshold >= 0 => Cardinality(Tolerated) <= bad_assets_threshold

\* C32 witness: two threads had failures counted, one after the other's, and
\* one more failure was counted than the threshold allows
C32_Witness ==
    /\ bad_assets_threshold = MaxThreshold
    /\ Len(handled) = bad_assets_threshold + 1
    /\ bad_assets_count = Len(handled)
    /\ handled[Len(handled)].raised
    /\ \E i, j \in DOMAIN handled : handled[i].worker # handled[j].worker

\* C33: the lock is held by a thread only between the load of the counter
\* and the comparison, never by a thread that is in get_asset_content or in
\* add_item_for or that raised; so a thread that waits for the lock finds it
\* free or held by a thread that is about to leave it.
C33_LockOnlyAroundCounter ==
    /\ lock # 0 => workers[lock].pc \in LockedPcs
    /\ \A w \in DOMAIN workers :
         /\ workers[w].pc \in LockedPcs => lock = w
         /\ workers[w].pc \in {"get_asset_content", "add_item_for", "raised"} => lock # w
         /\ workers[w].pc = "lock" => (lock = 0 \/ (lock # w /\ workers[lock].pc \in LockedPcs))

\* C33 witness: a thread raised the error and another thread, which failed
\* later, holds the lock
C33_Witness ==
    \E w, v \in DOMAIN workers :
       /\ workers[w].pc = "raised"
       /\ lock = v
       /\ workers[v].pc = "threshold"

\* C38: the counter never goes down, and once a counted failure raised the
\* error every later counted failure, of any thread, raises it too.
C38_CounterNeverGoesDown ==
    /\ [][bad_assets_count' >= bad_assets_count]_vars
    /\ [](\A i, j \in DOMAIN handled :
            (i < j /\ handled[i].raised) => handled[j].raised)
    /\ [](\A i \in DOMAIN handled :
            (bad_assets_threshold >= 0 /\ handled[i].count > bad_assets_threshold) =>
                handled[i].raised)

\* C38 witness: two threads raised the error, one after the other
C38_Witness ==
    \E i, j \in DOMAIN handled :
       /\ i < j
       /\ handled[i].raised
       /\ handled[j].raised
       /\ handled[i].worker # handled[j].worker
       /\ workers[handled[i].worker].pc = "raised"
       /\ workers[handled[j].worker].pc = "raised"

(* ------------------------- claims on progress -------------------------- *)

\* C34: stats_items_done and stats_items_total never decrease; as long as
\* run has not made its last report, done is below total, in the counters
\* and in every report made; after the last report of a run that went
\* through all its loops done equals total, and so does the report.
C34_ProgressMonotonic ==
    /\ [][/\ stats_items_done' >= stats_items_done
          /\ stats_items_total' >= stats_items_total]_vars
    /\ [](progress.pc \notin {"off", "done"} =>
            /\ stats_items_done < stats_items_total
            /\ stats_file.written => stats_file.done < stats_file.total)
    /\ [][stats_file' # stats_file =>
            /\ stats_file'.done = stats_items_done'
            /\ stats_file'.total = stats_items_total']_vars
    /\ [](progress.pc = "done" =>
            /\ stats_items_done = stats_items_total
            /\ stats_file = Progress(stats_items_done, stats_items_total))

\* C34 witness: a run made its last report after loops with as many items
\* as there are loops, or more
C34_Witness ==
    /\ progress.pc = "done"
    /\ stats_items_total >= 1 + Len(CountedLoops)
    /\ stats_items_done = stats_items_total
    /\ stats_file.done = stats_items_total

(* ---------------------- claims on the illustration --------------------- *)

\* the candidate downloaded, had a format and was converted and resized
IconSucceeds(env) ==
    /\ env.download = "ok"
    /\ env.format # "ValueError"
    /\ env.convert = "ok"
    /\ env.resize = "ok"

\* the URLs of the candidates visited, in the order of the visits
IconsVisited == [i \in DOMAIN icons_tried |-> icons_tried[i].url]

\* the candidates of the call: the override alone, or the icons of the home page
IconsOfCall == IF illustration_url # None THEN << illustration_url >> ELSE icons_urls

\* C35: the candidates are visited in their order; a candidate is returned
\* exactly when it downloads and converts, and then it is the first such
\* candidate and no later one is visited; NoIllustrationFoundError is raised
\* only after every candidate was visited and failed; with an illustration
\* URL no icon of the home page is visited.
C35_FirstGoodIllustration ==
    /\ illustration.state = "running" => IconsVisited \o icons_todo = IconsOfCall
    /\ illustration.state # "idle" =>
          /\ Len(IconsVisited) <= Len(IconsOfCall)
          /\ IconsVisited = SubSeq(IconsOfCall, 1, Len(IconsVisited))
          /\ \A i \in DOMAIN icons_tried :
               icons_tried[i].exc = "none" <=> IconSucceeds(icons_tried[i].env)
          /\ \A i \in DOMAIN icons_tried :
               icons_tried[i].exc = "none" =>
                  (i = Len(icons_tried) /\ illustration.state = "returned")
    /\ illustration.state = "returned" =>
          /\ icons_tried # << >>
          /\ icons_tried[Len(icons_tried)].exc = "none"
          /\ illustration.url = icons_tried[Len(icons_tried)].url
          /\ illustration.url = IconsOfCall[Len(icons_tried)]
    /\ illustration.state = "NoIllustrationFoundError" =>
          /\ IconsVisited = IconsOfCall
          /\ \A i \in DOMAIN icons_tried : ~IconSucceeds(icons_tried[i].env)
    /\ illustration_url # None =>
          \A i \in DOMAIN icons_tried : icons_tried[i].url = illustration_url

\* C35 witness: the first icon of the home page failed and the second one,
\* another URL, was returned
C35_Witness ==
    /\ illustration_url = None
    /\ illustration.state = "returned"
    /\ Len(icons_tried) = 2
    /\ icons_tried[1].exc # "none"
    /\ illustration.url = icons_urls[2]
    /\ icons_urls[2] # icons_urls[1]

(* ------------------ claims on LibraryTree and ContentFilter ------------ *)

\* the tree filter looks at: the sub-tree of root_page_id when it is set
FilteredPages ==
    IF content_filter.root_page_id # None
    THEN Elements(PageValues(sub_tree(library, pages_tree, content_filter.root_page_id).pages))
    ELSE Elements(PageValues(pages_tree.pages))

FilterReturned ==
    /\ lib_op = "returned"
    /\ returned.call = "filter"
    /\ returned.exc = "none"

\* a page matches: its title matches the include regex or its id is listed
\* (every page when neither is given), and its title does not match the
\* exclude regex
MatchesTitleOrId(page) ==
    /\ \/ content_filter.page_title_include = None /\ content_filter.page_id_include = None
       \/ /\ content_filter.page_title_include # None
          /\ re_search(content_filter.page_title_include, library.title[page])
       \/ /\ content_filter.page_id_include # None
          /\ \E i \in DOMAIN split(content_filter.page_id_include) :
               library.id[page] = strip(split(content_filter.page_id_include)[i])
    /\ \/ content_filter.page_title_exclude = None
       \/ ~re_search(content_filter.page_title_exclude, library.title[page])

\* C14: ContentFilter.filter returns exactly the pages that are a matching
\* page or one of its parents, where a page matches when (its title matches
\* the include regex OR its id is in the id-include list) AND its title does
\* not match the exclude regex
C14_TitleOrIdIncluded ==
    FilterReturned =>
      Elements(returned.value) =
        { q \in FilteredPages :
            \E p \in FilteredPages : MatchesTitleOrId(p) /\ q \in Chain(library.parent, p) }

\* C15: with only a title-include filter the selection is the pages whose
\* title matches and their ancestors, nothing else, each once; when it is not
\* empty the root is its first element
C15_TitleIncludeSelection ==
    ( /\ FilterReturned
      /\ content_filter.page_title_include # None
      /\ content_filter.page_id_include = None
      /\ content_filter.page_title_exclude = None
      /\ content_filter.root_page_id = None ) =>
        /\ Elements(returned.value) =
             { q \in DOMAIN library.parent :
                 \E p \in DOMAIN library.parent :
                   /\ re_search(content_filter.page_title_include, library.title[p])
                   /\ q \in Chain(library.parent, p) }
        /\ Cardinality(Elements(returned.value)) = Len(returned.value)
        /\ returned.value # << >> => returned.value[1] = pages_tree.root

\* root R with children A and B, include 'A': R and A are selected
C15_Witness ==
    /\ FilterReturned
    /\ library.parent = << 0, 1, 1 >>
    /\ library.title = << "Beta", "Alpha", "Beta" >>
    /\ content_filter = ContentFilter("alpha", None, None, None)
    /\ returned.value = << 1, 2 >>

\* the pages reached from the pages of S through children links
RECURSIVE Reach(_, _)
Reach(lib, S) ==
    IF \A p \in S : Elements(lib.children[p]) \subseteq S
    THEN S
    ELSE Reach(lib, S \cup UNION { Elements(lib.children[p]) : p \in S })

SubTreeReturned ==
    /\ lib_op = "returned"
    /\ returned.call = "sub_tree"
    /\ returned.exc = "none"

\* C16: sub_tree(id).pages holds exactly the pages reachable from the page of
\* that id through children links, the page itself included, each once, and
\* the page under an id is the page the source tree has under that id
C16_SubTreeIsReachableSet ==
    SubTreeReturned =>
      /\ PageIds(returned.value.pages) =
           { library.id[q] : q \in Reach(library, {PageAt(pages_tree.pages, returned.arg)}) }
      /\ Cardinality(PageIds(returned.value.pages)) = Len(returned.value.pages)
      /\ \A i \in DOMAIN returned.value.pages :
           returned.value.pages[i].page =
             PageAt(pages_tree.pages, returned.value.pages[i].id)

\* the longest children list
Fanout ==
    CHOOSE k \in 0..(2 * MaxNodes) :
      /\ \A p \in DOMAIN library.children : Len(library.children[p]) <= k
      /\ \E p \in DOMAIN library.children : Len(library.children[p]) = k

\* what the loop of sub_tree has left to do: the ids it has not added and the
\* children it has not taken
Measure ==
    Cardinality({ library.id[p] : p \in DOMAIN library.id } \ PageIds(tree.pages))
      * (Fanout + 1)
    + Len(children_to_explore)

\* C17: the loop of sub_tree terminates on every finite library, cycles and
\* repeated ids included: every turn brings it nearer to the end, and no id is
\* added, and its children listed, more than once
C17_SubTreeTerminates ==
    /\ [](\A i, j \in DOMAIN visits :
            (visits[i].added /\ visits[j].added
             /\ library.id[visits[i].page] = library.id[visits[j].page]) => i = j)
    /\ [][(lib_op = "sub_tree" /\ lib_op' = "sub_tree") =>
            (Measure' < Measure /\ Measure' >= 0)]_vars

\* sub_tree returned for a library with a cycle of children links, after the
\* safe-guard skipped a page
C17_Witness ==
    /\ SubTreeReturned
    /\ \E p \in DOMAIN library.children :
         p \in Reach(library, Elements(library.children[p]))
    /\ \E i \in DOMAIN visits : ~visits[i].added

\* C18: self_and_parents of a page of the tree get_page_tree built starts with
\* the page, goes from each page to its parent and ends with the root, which
\* has no parent; it is no longer than the tree has pages
C18_WalkEndsAtRoot ==
    (lib_op = "returned" /\ returned.call = "self_and_parents") =>
      /\ returned.value[1] = returned.arg
      /\ \A i \in 1..(Len(returned.value) - 1) :
           returned.value[i + 1] = library.parent[returned.value[i]]
      /\ returned.value[Len(returned.value)] = pages_tree.root
      /\ library.parent[pages_tree.root] = 0
      /\ Len(returned.value) <= Len(library.parent)

\* the walk from a page two levels below the root
C18_Witness ==
    /\ lib_op = "returned"
    /\ returned.call = "self_and_parents"
    /\ Len(returned.value) = 3
    /\ returned.value[3] = pages_tree.root

\* filter returned for a filter with root_page_id
FilteredBelowSubRoot ==
    /\ lib_op = "returned"
    /\ returned.call = "filter"
    /\ returned.exc = "none"
    /\ content_filter.root_page_id # None

\* the page the tree holds under root_page_id
SubRoot == PageAt(pages_tree.pages, content_filter.root_page_id)

\* C37: with root_page_id, every page filter returns is the sub-root or has
\* it among its parents, no parent of the sub-root is returned, and a result
\* that is not empty starts with the sub-root.
C37_OnlySubTreePages ==
    FilteredBelowSubRoot =>
      /\ \A i \in DOMAIN returned.value :
           SubRoot \in Chain(library.parent, returned.value[i])
      /\ \A i \in DOMAIN returned.value :
           returned.value[i] \notin Chain(library.parent, library.parent[SubRoot])
      /\ returned.value # << >> => returned.value[1] = SubRoot

\* C37 witness: the sub-root has a parent, a page below the sub-root was
\* selected by its title while the sub-root was not, and another page of the
\* sub-tree is left out
C37_Witness ==
    /\ FilteredBelowSubRoot
    /\ library.parent[SubRoot] # 0
    /\ content_filter.page_title_include # None
    /\ ~is_selected(library, content_filter, SubRoot)
    /\ Len(returned.value) = 2
    /\ returned.value[1] = SubRoot
    /\ \E p \in DOMAIN library.parent :
         /\ SubRoot \in Chain(library.parent, p)
         /\ p \notin Elements(returned.value)

====
